---- MODULE Spec2Model ----
(***************************************************************************)
(* A model of boris-clip: the BORIS annotation parsers (parse.py), the      *)
(* cross-validator (validate.py), the interval model (models.py) and the   *)
(* clip planner (clip.py).                                                  *)
(*                                                                         *)
(* Representation.                                                         *)
(*  - A Python str is a sequence of one-character strings, so that strip,  *)
(*    upper, re.sub and "_".join are computed character by character.      *)
(*  - A float number of seconds is an integer number of ticks, one tick    *)
(*    being a third of a millisecond (TicksPerMs): every tick value has a  *)
(*    nearest millisecond, so "{:.3f}" never meets a rounding tie.         *)
(*  - An optional value is << >> (None, NaN) or <<v>>.                      *)
(*  - warn() appends a record to warnings; abort() appends a record to     *)
(*    errors, sets exit_code to 1 and ends the run (sys.exit).             *)
(***************************************************************************)
EXTENDS Integers, Sequences, FiniteSets, TLC

VARIABLES
    pc,           \* position of the running function
    warnings,     \* what warn() has written, in order
    errors,       \* what abort() has written
    exit_code,    \* 0 while running or returned, 1 after sys.exit(1)
    df,           \* parse.py: the data frame being parsed
    idx,          \* parse.py: position of the row loop in df
    open_states,  \* parse.py: pending STARTs, in dict insertion order
    bouts,        \* parse.py: the list of Bouts built so far
    project,      \* parse.py: the loaded .boris project document
    obs_i,        \* parse.py: position of the observation loop
    events,       \* parse.py: the sorted events of the current observation
    media_filename, fps, duration,  \* parse.py: the declared media metadata
    annotations,  \* validate.py: the ParsedAnnotations under validation
    video,        \* validate.py, clip.py: the VideoInfo
    force,        \* validate.py: the force flag
    evaluated,    \* validate.py: the checks entered so far, in order
    args,         \* clip.py, models.py: the arguments of the running call
    kept,         \* clip.py: the bouts left by _apply_max_clips
    clip_i,       \* clip.py: position of the bout loop
    calls,        \* clip.py: the extract_clip calls made, in order
    created,      \* clip.py: the list of paths built so far
    heap,         \* clip.py, models.py: the Bout and list objects of the call
    result        \* what the running function returned (None before)

parseVars == <<df, idx, open_states, bouts, project, obs_i, events,
               media_filename, fps, duration>>
validateVars == <<annotations, video, force, evaluated>>
clipVars == <<args, kept, clip_i, calls, created, heap>>

vars == <<pc, warnings, errors, exit_code, parseVars, validateVars, clipVars, result>>

\* An optional value (Python None, a pandas NaN cell) is a sequence of at most
\* one element: << >> when absent, <<v>> when present.
None == << >>
NaN == << >>
Some(v) == <<v>>

(***************************************************************************)
(* Bounds of the model.                                                    *)
(***************************************************************************)
MaxRows == 3

(***************************************************************************)
(* Generic helpers.                                                        *)
(***************************************************************************)
Max(a, b) == IF a >= b THEN a ELSE b
Min(a, b) == IF a <= b THEN a ELSE b

SeqsUpTo(S, n) == UNION {[1..k -> S] : k \in 0..n}

\* The subsequence of s at the indices that satisfy Keep, in order.
RECURSIVE FilterIdx(_, _, _)
FilterIdx(s, Keep(_), i) ==
    IF i > Len(s) THEN << >>
    ELSE (IF Keep(i) THEN <<s[i]>> ELSE << >>) \o FilterIdx(s, Keep, i + 1)

(***************************************************************************)
(* Python str operations.                                                  *)
(***************************************************************************)
LowerLetters == <<"a","b","c","d","e","f","g","h","i","j","k","l","m",
                  "n","o","p","q","r","s","t","u","v","w","x","y","z">>
UpperLetters == <<"A","B","C","D","E","F","G","H","I","J","K","L","M",
                  "N","O","P","Q","R","S","T","U","V","W","X","Y","Z">>

IsSpace(c) == c \in {" ", "\t"}

\* str.upper and str.lower on one character, as tables over the letters.
UpperMap ==
    [c \in {LowerLetters[k] : k \in 1..26} |->
        UpperLetters[CHOOSE k \in 1..26 : LowerLetters[k] = c]]
LowerMap ==
    [c \in {UpperLetters[k] : k \in 1..26} |->
        LowerLetters[CHOOSE k \in 1..26 : UpperLetters[k] = c]]

UpperChar(c) == IF c \in DOMAIN UpperMap THEN UpperMap[c] ELSE c
LowerChar(c) == IF c \in DOMAIN LowerMap THEN LowerMap[c] ELSE c

StrUpper(s) == [i \in 1..Len(s) |-> UpperChar(s[i])]
StrLower(s) == [i \in 1..Len(s) |-> LowerChar(s[i])]

RECURSIVE LStrip(_)
LStrip(s) == IF s # << >> /\ IsSpace(Head(s)) THEN LStrip(Tail(s)) ELSE s

RECURSIVE RStrip(_)
RStrip(s) ==
    IF s # << >> /\ IsSpace(s[Len(s)]) THEN RStrip(SubSeq(s, 1, Len(s) - 1)) ELSE s

StrStrip(s) == RStrip(LStrip(s))

(***************************************************************************)
(* The variables of the functions that a specification does not run.       *)
(***************************************************************************)
ParseIdle ==
    /\ df = None /\ idx = 0 /\ open_states = << >> /\ bouts = << >>
    /\ project = None /\ obs_i = 0 /\ events = << >>
    /\ media_filename = None /\ fps = None /\ duration = None

ValidateIdle ==
    /\ annotations = None /\ video = None /\ force = FALSE /\ evaluated = << >>

\* Objects are named by their position in heap.objs (Bout instances) and in
\* heap.lists (lists of references to Bout instances); returned is the
\* reference that the last call has returned, passed the references handed
\* to extract_clip, bouts the list that the name bouts of extract_all_clips
\* is bound to.
NoHeap == [objs |-> << >>, lists |-> << >>, returned |-> None, passed |-> << >>, bouts |-> None]

\* The caller's Bout instances and, with as_list, the caller's list of them.
HeapOf(bs, as_list) ==
    [objs |-> bs, lists |-> IF as_list THEN <<[k \in 1..Len(bs) |-> k]>> ELSE << >>,
     returned |-> None, passed |-> << >>, bouts |-> IF as_list THEN Some(1) ELSE None]

ClipIdle ==
    /\ args = None /\ kept = << >> /\ clip_i = 0 /\ calls = << >> /\ created = << >>
    /\ heap = NoHeap

(***************************************************************************)
(* cli_utils.py                                                            *)
(***************************************************************************)
warn(ws, w) == Append(ws, w)

(***************************************************************************)
(* models.py                                                               *)
(***************************************************************************)
Bout(subject, behaviour, start, stop, is_point) ==
    [subject |-> subject, behaviour |-> behaviour,
     start |-> start, stop |-> stop, is_point |-> is_point]

ParsedAnnotations(bs, id, filename, rate, length, source_format) ==
    [bouts |-> bs, obs_id |-> id, media_filename |-> filename,
     fps |-> rate, duration |-> length, source_format |-> source_format]

(***************************************************************************)
(* parse.py: shared helpers                                                *)
(***************************************************************************)
\* _sanitise_str: "" for a missing value, else the value stripped.
SanitiseStr(value) == IF value = NaN THEN << >> ELSE StrStrip(value[1])

\* _find_col: the first column of the frame whose lower-cased name equals a
\* lower-cased candidate; None when there is none.
FindCol(columns, candidates) ==
    LET hits == {k \in 1..Len(candidates) :
                    \E c \in columns : StrLower(c) = StrLower(candidates[k])}
    IN  IF hits = {} THEN None
        ELSE LET k == CHOOSE k \in hits : \A m \in hits : k <= m
             IN  Some(CHOOSE c \in columns : StrLower(c) = StrLower(candidates[k]))

sMediaPath == <<"M","e","d","i","a"," ","f","i","l","e"," ","p","a","t","h">>
sMediaName == <<"M","e","d","i","a"," ","f","i","l","e"," ","n","a","m","e">>
sMediaFile == <<"M","e","d","i","a"," ","f","i","l","e">>
sFPS == <<"F","P","S">>
sFps == <<"F","p","s">>
sTotalLength == <<"T","o","t","a","l"," ","l","e","n","g","t","h">>
sDuration == <<"D","u","r","a","t","i","o","n">>

\* A media file given with its directory and one given by name.
sVideo1 == <<"/","d","/","v","1",".","m","p","4">>
sVideo2 == <<"v","2",".","m","p","4">>

\* Series.dropna().unique(): the distinct present cells, in order of first
\* appearance.
DropNa(cells) == FilterIdx(cells, LAMBDA k : cells[k] # NaN, 1)
Unique(cells) == FilterIdx(cells, LAMBDA k : \A j \in 1..(k - 1) : cells[j] # cells[k], 1)

\* Lines 99-109 and 203-213: the one numeric value of a column, if there is exactly one.
OnlyValue(frame, candidates, cells) ==
    LET vals == Unique(DropNa(cells))
    IN  IF FindCol(frame.columns, candidates) # None /\ Len(vals) = 1
        THEN Some(vals[1][1])
        ELSE None

\* Path(p).name: what follows the last "/" once trailing "/" are dropped.
RECURSIVE DropTrailingSlash(_)
DropTrailingSlash(p) ==
    IF p # << >> /\ p[Len(p)] = "/" THEN DropTrailingSlash(SubSeq(p, 1, Len(p) - 1)) ELSE p

PathName(p) ==
    LET q == DropTrailingSlash(p)
        slashes == {i \in 1..Len(q) : q[i] = "/"}
        last == IF slashes = {} THEN 0 ELSE CHOOSE i \in slashes : \A j \in slashes : j <= i
    IN  SubSeq(q, last + 1, Len(q))

(***************************************************************************)
(* parse.py: _parse_tabular_csv                                            *)
(***************************************************************************)
sTime      == <<"T","i","m","e">>
sSubject   == <<"S","u","b","j","e","c","t">>
sBehavior  == <<"B","e","h","a","v","i","o","r">>
sBehaviour == <<"B","e","h","a","v","i","o","u","r">>
sStatus    == <<"S","t","a","t","u","s">>
sBehType   == <<"B","e","h","a","v","i","o","r"," ","t","y","p","e">>
sBehTypeUK == <<"B","e","h","a","v","i","o","u","r"," ","t","y","p","e">>

sSTART    == <<"S","T","A","R","T">>
sSTOP     == <<"S","T","O","P">>
sPOINT    == <<"P","O","I","N","T">>
sPUNCTUAL == <<"P","U","N","C","T","U","A","L">>

\* The columns a tabular parse cannot do without, as _require_col asks for them.
TabularRequired ==
    << <<sTime>>, <<sSubject>>, <<sBehavior, sBehaviour>>,
       <<sStatus, sBehType, sBehTypeUK>> >>

\* A row as the loop reads it (lines 121-124).
RowTime(row)      == row.time
RowSubject(row)   == SanitiseStr(row.subject)
RowBehaviour(row) == SanitiseStr(row.behaviour)
RowStatus(row)    == StrUpper(SanitiseStr(row.status))
RowKey(row)       == <<RowSubject(row), RowBehaviour(row)>>

\* open_states is a dict: a sequence of <<key, start>> in insertion order.
IsOpen(os, key)   == \E k \in 1..Len(os) : os[k][1] = key
OpenStart(os, key) == os[CHOOSE k \in 1..Len(os) : os[k][1] = key][2]
\* A START on an open key that keeps the older start time.
OpenSetKeepFirst(os, key, t) ==
    IF IsOpen(os, key) THEN os ELSE Append(os, <<key, t>>)
\* open_states[key] = t: an existing key keeps its place, a new one goes last.
OpenSet(os, key, t) ==
    IF IsOpen(os, key)
    THEN [k \in 1..Len(os) |-> IF os[k][1] = key THEN <<key, t>> ELSE os[k]]
    ELSE Append(os, <<key, t>>)
\* A STOP that reads the start time and leaves the key open.
OpenPopKeepsKey(os, key) == os
\* open_states.pop(key)
OpenPop(os, key) == FilterIdx(os, LAMBDA k : os[k][1] # key, 1)

\* Lines 111-114: the rows with a numeric time, their time made a float, in an
\* order sorted by time. sort_values uses quicksort, which does not keep the
\* order of equal times: every time-sorted order of the kept rows is a
\* possible outcome.
NumericRows(rows) ==
    LET numeric == FilterIdx(rows, LAMBDA k : rows[k].time # NaN, 1)
    IN  [k \in 1..Len(numeric) |-> [numeric[k] EXCEPT !.time = numeric[k].time[1]]]

IsTimeSorted(rows) ==
    \A i, j \in 1..Len(rows) : i < j => rows[i].time <= rows[j].time

\* The orders of the rows at the indices todo in which times never decrease.
RECURSIVE OrdersOf(_, _)
OrdersOf(rows, todo) ==
    IF todo = {} THEN {<< >>}
    ELSE LET first == {i \in todo : \A j \in todo : rows[i].time <= rows[j].time}
         IN  UNION {{<<rows[i]>> \o rest : rest \in OrdersOf(rows, todo \ {i})} :
                        i \in first}

\* The rows left in file order.
SortedOrdersFileOrder(rows) == {rows}
\* The rows sorted by descending time.
SortedOrdersDescending(rows) ==
    {[k \in 1..Len(s) |-> s[Len(s) + 1 - k]] : s \in OrdersOf(rows, 1..Len(rows))}
SortedOrders(rows) == OrdersOf(rows, 1..Len(rows))

\* _require_col finding every column.
MissingRequiredNone(columns) == {}

\* Lines 78-81: _require_col aborts on the first mandatory column it misses.
MissingRequired(columns) ==
    {k \in 1..Len(TabularRequired) : FindCol(columns, TabularRequired[k]) = None}

\* Lines 82 and 89: the distinct media files of the frame, in file order; none
\* when the frame has no such column.
TabFilenames(frame) ==
    IF FindCol(frame.columns, <<sMediaPath, sMediaName, sMediaFile>>) # None
    THEN Unique(DropNa([k \in 1..Len(frame.rows) |-> frame.rows[k].media]))
    ELSE << >>

\* Lines 76-114: the columns are looked up, the declared media file, frame
\* rate and length are read, then the frame is cleaned and sorted.
TabPrepare ==
    /\ pc = "tabular"
    /\ IF MissingRequired(df.columns) # {}
       THEN /\ errors' = Append(errors, [kind |-> "missing_column"])
            /\ exit_code' = 1
            /\ pc' = "exited"
            /\ UNCHANGED <<warnings, df, idx, media_filename, fps, duration>>
       ELSE /\ LET filenames == TabFilenames(df)
               IN  /\ warnings' = IF Len(filenames) > 1
                                  THEN warn(warnings, [kind |-> "multiple_media",
                                                       filenames |-> filenames])
                                  ELSE warnings
                   /\ media_filename' = IF Len(filenames) >= 1
                                        THEN Some(PathName(SanitiseStr(filenames[1])))
                                        ELSE None
            /\ fps' = OnlyValue(df, <<sFPS, sFps>>,
                                [k \in 1..Len(df.rows) |-> df.rows[k].fps])
            /\ duration' = OnlyValue(df, <<sTotalLength, sDuration>>,
                                     [k \in 1..Len(df.rows) |-> df.rows[k].total])
            /\ \E s \in SortedOrders(NumericRows(df.rows)) :
                    df' = [df EXCEPT !.rows = s]
            /\ idx' = 1
            /\ pc' = "tabular_rows"
            /\ UNCHANGED <<errors, exit_code>>
    /\ UNCHANGED <<open_states, bouts, result>>
    /\ UNCHANGED <<project, obs_i, events>>
    /\ UNCHANGED <<validateVars, clipVars>>

\* Lines 120-165: one iteration of the row loop.
TabRow ==
    /\ pc = "tabular_rows"
    /\ idx <= Len(df.rows)
    /\ LET row       == df.rows[idx]
           t         == RowTime(row)
           subject   == RowSubject(row)
           behaviour == RowBehaviour(row)
           status    == RowStatus(row)
           key       == <<subject, behaviour>>
       IN  \/ /\ status = sSTART
              /\ warnings' =
                    IF IsOpen(open_states, key)
                    THEN warn(warnings, [kind |-> "start_before_close", subject |-> subject,
                                         behaviour |-> behaviour, t |-> t])
                    ELSE warnings
              /\ open_states' = OpenSet(open_states, key, t)
              /\ UNCHANGED bouts
           \/ /\ status = sSTOP
              /\ IF ~IsOpen(open_states, key)
                 THEN /\ warnings' = warn(warnings, [kind |-> "unmatched_stop",
                                          subject |-> subject, behaviour |-> behaviour, t |-> t])
                      /\ UNCHANGED <<open_states, bouts>>
                 ELSE /\ bouts' = Append(bouts, Bout(subject, behaviour,
                                                     OpenStart(open_states, key), t, FALSE))
                      /\ open_states' = OpenPop(open_states, key)
                      /\ UNCHANGED warnings
           \/ /\ status \in {sPOINT, sPUNCTUAL}
              /\ bouts' = Append(bouts, Bout(subject, behaviour, t, t, TRUE))
              /\ UNCHANGED <<warnings, open_states>>
           \/ /\ status \notin {sSTART, sSTOP, sPOINT, sPUNCTUAL}
              /\ warnings' = warn(warnings, [kind |-> "unknown_status", subject |-> subject,
                                            behaviour |-> behaviour, t |-> t])
              /\ UNCHANGED <<open_states, bouts>>
    /\ idx' = idx + 1
    /\ UNCHANGED <<pc, errors, exit_code, df, result>>
    /\ UNCHANGED <<project, obs_i, events, media_filename, fps, duration>>
    /\ UNCHANGED <<validateVars, clipVars>>

\* Lines 167-179: one warning per key still open, then the result is returned.
TabFinish ==
    /\ pc = "tabular_rows"
    /\ idx > Len(df.rows)
    /\ warnings' = warnings \o
            [k \in 1..Len(open_states) |->
                [kind |-> "never_closed", subject |-> open_states[k][1][1],
                 behaviour |-> open_states[k][1][2], t |-> open_states[k][2]]]
    /\ result' = Some(ParsedAnnotations(bouts, None, media_filename, fps, duration,
                                         "tabular_csv"))
    /\ pc' = "done"
    /\ UNCHANGED <<errors, exit_code, df, idx, open_states, bouts>>
    /\ UNCHANGED <<project, obs_i, events, media_filename, fps, duration>>
    /\ UNCHANGED <<validateVars, clipVars>>

(***************************************************************************)
(* The paired-event parser run on every small document.                    *)
(***************************************************************************)
TabTimes == {0, 1, 2}
TabStatuses == {sSTART, <<"s","t","o","p"," ">>, <<"P","o","i","n","t">>, <<"x">>}
TabRun == <<"r","u","n">>

TabRowOf(time, subject, status) ==
    [time |-> time, subject |-> Some(subject), behaviour |-> Some(TabRun),
     status |-> Some(status)]

\* The rows of a document: key ("A", "run") with every status at every time,
\* key ("B", "run") with every status at the middle time (equal times may be
\* read in any order, so its rows come before, between and after those of
\* the first key), a row whose time is not numeric and a row with the second
\* spelling of a point event.
TabRowSet ==
    {TabRowOf(Some(t), <<"A">>, st) : t \in TabTimes, st \in TabStatuses}
    \cup {TabRowOf(Some(1), <<" ","B">>, st) : st \in TabStatuses}
    \cup {TabRowOf(NaN, <<"A">>, sSTART), TabRowOf(Some(1), <<"A">>, sPUNCTUAL)}

TabColumns == {sTime, sSubject, sBehavior, sStatus}

\* Rows of a document that declares its media file, frame rate and length:
\* a START and a STOP that agree, a row that differs in the media file and
\* the frame rate, a row that differs in the length, and a row with the
\* three cells empty.
TabMetaRowOf(time, status, media, rate, total) ==
    [time |-> Some(time), subject |-> Some(<<"A">>), behaviour |-> Some(TabRun),
     status |-> Some(status), media |-> media, fps |-> rate, total |-> total]

TabMetaRowSet ==
    { TabMetaRowOf(0, sSTART, Some(sVideo1), Some(2500), Some(60)),
      TabMetaRowOf(2, sSTOP, Some(sVideo1), Some(2500), Some(60)),
      TabMetaRowOf(1, sPOINT, Some(sVideo2), Some(3000), Some(60)),
      TabMetaRowOf(1, sPOINT, Some(sVideo1), Some(2500), Some(90)),
      TabMetaRowOf(1, sPOINT, NaN, NaN, NaN) }

TabMetaColumns == {sMediaPath, sFPS, sDuration}

TabularFrames ==
    {[columns |-> TabColumns, rows |-> r] : r \in SeqsUpTo(TabRowSet, MaxRows)}
        \cup {[columns |-> TabColumns \ {c}, rows |-> << >>] : c \in TabColumns}
        \cup {[columns |-> TabColumns \cup TabMetaColumns, rows |-> r] :
                 r \in SeqsUpTo(TabMetaRowSet, MaxRows)}

InitTabular ==
    /\ pc = "tabular"
    /\ df \in TabularFrames
    /\ warnings = << >>
    /\ errors = << >>
    /\ exit_code = 0
    /\ idx = 0
    /\ open_states = << >>
    /\ bouts = << >>
    /\ project = None
    /\ obs_i = 0
    /\ events = << >>
    /\ media_filename = None
    /\ fps = None
    /\ duration = None
    /\ ValidateIdle
    /\ ClipIdle
    /\ result = None

NextTabular == TabPrepare \/ TabRow \/ TabFinish

SpecTabular == InitTabular /\ [][NextTabular]_vars

(***************************************************************************)
(* The paired-event parser run on longer documents of STARTs and STOPs:    *)
(* one key at four times, and a second key open across them.               *)
(***************************************************************************)
MaxPairRows == 4

TabPairRowSet ==
    {TabRowOf(Some(t), <<"A">>, st) : t \in 0..3, st \in {sSTART, sSTOP}}
    \cup {TabRowOf(Some(0), <<"B">>, sSTART), TabRowOf(Some(2), <<"B">>, sSTOP)}

InitTabularPairs ==
    /\ pc = "tabular"
    /\ \E r \in SeqsUpTo(TabPairRowSet, MaxPairRows) : df = [columns |-> TabColumns, rows |-> r]
    /\ warnings = << >>
    /\ errors = << >>
    /\ exit_code = 0
    /\ idx = 0
    /\ open_states = << >>
    /\ bouts = << >>
    /\ project = None
    /\ obs_i = 0
    /\ events = << >>
    /\ media_filename = None
    /\ fps = None
    /\ duration = None
    /\ ValidateIdle
    /\ ClipIdle
    /\ result = None

SpecTabularPairs == InitTabularPairs /\ [][NextTabular]_vars

(***************************************************************************)
(* parse.py: _parse_boris_project                                          *)
(*                                                                         *)
(* A project is [ethogram, observations]: the ethogram a sequence of       *)
(* [name, type] entries, the observations a sequence (a dict in insertion  *)
(* order) of [obs_id, file, media_info, events]. file is the sequence of   *)
(* the players' file lists, media_info the sequence of the file_info      *)
(* mappings in iteration order, an event a tuple <<time, subject,          *)
(* behaviour, ...>> that may be too short.                                 *)
(***************************************************************************)
sStateEvent == <<"S","t","a","t","e"," ","e","v","e","n","t">>
sPointEvent == <<"P","o","i","n","t"," ","e","v","e","n","t">>
sPointLower == <<"p","o","i","n","t">>

\* sub in s
Contains(s, sub) ==
    \E i \in 1..(Len(s) - Len(sub) + 1) : SubSeq(s, i, i + Len(sub) - 1) = sub

\* Lines 257-262: the dict from stripped behaviour name to stripped type; a
\* later entry of the same name replaces an earlier one.
EthogramHas(ethogram, behaviour) ==
    \E k \in 1..Len(ethogram) :
        StrStrip(ethogram[k].name) # << >> /\ StrStrip(ethogram[k].name) = behaviour

\* Line 326: ethogram.get(behaviour, "State event")
EthogramGet(ethogram, behaviour) ==
    IF EthogramHas(ethogram, behaviour)
    THEN LET c == {k \in 1..Len(ethogram) : StrStrip(ethogram[k].name) = behaviour}
         IN  StrStrip(ethogram[CHOOSE k \in c : \A m \in c : m <= k].type)
    ELSE sStateEvent

\* Lines 284-294: the first player with a non-empty file list names the media.
MediaOf(file, previous) ==
    LET c == {k \in 1..Len(file) : file[k] # << >>}
    IN  IF c = {} THEN previous
        ELSE Some(PathName(file[CHOOSE k \in c : \A m \in c : k <= m][1]))

\* Lines 297-311: a value is taken only while none has been found.
FirstFps(media_info, previous) ==
    LET c == {k \in 1..Len(media_info) : media_info[k].fps # None}
    IN  IF previous # None \/ c = {} THEN previous
        ELSE media_info[CHOOSE k \in c : \A m \in c : k <= m].fps

FirstDuration(media_info, previous) ==
    LET c == {k \in 1..Len(media_info) : media_info[k].duration # None}
    IN  IF previous # None \/ c = {} THEN previous
        ELSE media_info[CHOOSE k \in c : \A m \in c : k <= m].duration

\* Line 319: sorted(events, key=lambda e: e[0]) is a stable sort.
RECURSIVE StableByTime(_, _)
StableByTime(evs, todo) ==
    IF todo = {} THEN << >>
    ELSE LET i == CHOOSE i \in todo :
                    \A j \in todo : evs[i][1] < evs[j][1] \/ (evs[i][1] = evs[j][1] /\ i <= j)
         IN  <<evs[i]>> \o StableByTime(evs, todo \ {i})

\* The events left in the order of the document.
SortedEventsFileOrder(evs) == evs
SortedEvents(evs) == StableByTime(evs, 1..Len(evs))

\* Lines 252-277: no observation is fatal; several are announced.
ProjStart ==
    /\ pc = "project"
    /\ IF Len(project.observations) = 0
       THEN /\ errors' = Append(errors, [kind |-> "no_observations"])
            /\ exit_code' = 1
            /\ pc' = "exited"
            /\ UNCHANGED <<warnings, obs_i>>
       ELSE /\ warnings' =
                IF Len(project.observations) > 1
                THEN warn(warnings, [kind |-> "several_observations",
                                     n |-> Len(project.observations)])
                ELSE warnings
            /\ obs_i' = 1
            /\ pc' = "project_obs"
            /\ UNCHANGED <<errors, exit_code>>
    /\ UNCHANGED <<df, idx, open_states, bouts, project, events,
                   media_filename, fps, duration, result>>
    /\ UNCHANGED <<validateVars, clipVars>>

\* Lines 279-319: the head of the observation loop. The sort reads e[0] of
\* every event: an empty event raises IndexError, which nothing catches.
ProjObservation ==
    /\ pc = "project_obs"
    /\ obs_i <= Len(project.observations)
    /\ LET obs == project.observations[obs_i]
       IN  /\ media_filename' = MediaOf(obs.file, media_filename)
           /\ fps' = FirstFps(obs.media_info, fps)
           /\ duration' = FirstDuration(obs.media_info, duration)
           /\ IF \E k \in 1..Len(obs.events) : Len(obs.events[k]) = 0
              THEN /\ errors' = Append(errors, [kind |-> "IndexError"])
                   /\ exit_code' = 1
                   /\ pc' = "raised"
                   /\ UNCHANGED <<events, open_states, idx>>
              ELSE /\ events' = SortedEvents(obs.events)
                   /\ open_states' = << >>
                   /\ idx' = 1
                   /\ pc' = "project_events"
                   /\ UNCHANGED <<errors, exit_code>>
    /\ UNCHANGED <<warnings, df, bouts, project, obs_i, result>>
    /\ UNCHANGED <<validateVars, clipVars>>

\* Lines 319-352: one iteration of the event loop.
ProjEvent ==
    /\ pc = "project_events"
    /\ idx <= Len(events)
    /\ LET event == events[idx]
       IN  IF Len(event) < 3
           THEN UNCHANGED <<bouts, open_states>>
           ELSE LET t          == event[1]
                    subject    == StrStrip(event[2])
                    behaviour  == StrStrip(event[3])
                    event_type == EthogramGet(project.ethogram, behaviour)
                    key        == <<subject, behaviour>>
                IN  IF Contains(StrLower(event_type), sPointLower)
                    THEN /\ bouts' = Append(bouts, Bout(subject, behaviour, t, t, TRUE))
                         /\ UNCHANGED open_states
                    ELSE IF IsOpen(open_states, key)
                         THEN /\ bouts' = Append(bouts,
                                    Bout(subject, behaviour, OpenStart(open_states, key),
                                         t, FALSE))
                              /\ open_states' = OpenPop(open_states, key)
                         ELSE /\ open_states' = OpenSet(open_states, key, t)
                              /\ UNCHANGED bouts
    /\ idx' = idx + 1
    /\ UNCHANGED <<pc, warnings, errors, exit_code, df, project, obs_i, events,
                   media_filename, fps, duration, result>>
    /\ UNCHANGED <<validateVars, clipVars>>

\* Lines 354-358: one warning per key the observation leaves open.
ProjObservationEnd ==
    /\ pc = "project_events"
    /\ idx > Len(events)
    /\ warnings' = warnings \o
            [k \in 1..Len(open_states) |->
                [kind |-> "never_closed", obs_id |-> project.observations[obs_i].obs_id,
                 subject |-> open_states[k][1][1], behaviour |-> open_states[k][1][2],
                 t |-> open_states[k][2]]]
    /\ obs_i' = obs_i + 1
    /\ pc' = "project_obs"
    /\ UNCHANGED <<errors, exit_code, df, idx, open_states, bouts, project, events,
                   media_filename, fps, duration, result>>
    /\ UNCHANGED <<validateVars, clipVars>>

\* Lines 360-366: one ParsedAnnotations for the whole document; obs_id is
\* left at its default.
ProjReturn ==
    /\ pc = "project_obs"
    /\ obs_i > Len(project.observations)
    /\ result' = Some(ParsedAnnotations(bouts, None, media_filename, fps, duration,
                                         "boris_project"))
    /\ pc' = "done"
    /\ UNCHANGED <<warnings, errors, exit_code, df, idx, open_states, bouts, project,
                   obs_i, events, media_filename, fps, duration>>
    /\ UNCHANGED <<validateVars, clipVars>>

(***************************************************************************)
(* The project parser run on every small project.                          *)
(***************************************************************************)
MaxEvents == 3

sWalk == <<"w","a","l","k">>
sPeck == <<"p","e","c","k">>
sRest == <<"r","e","s","t">>

\* "walk" is a state event, "peck" a point event, "rest" is not declared.
ProjEthogram ==
    << [name |-> <<" ">>, type |-> sPointEvent],
       [name |-> sWalk, type |-> sStateEvent],
       [name |-> <<"p","e","c","k"," ">>, type |-> <<"P","O","I","N","T"," ","e","v","e","n","t">>] >>

ProjEventSet ==
    {<<t, <<"A">>, b>> : t \in {0, 1}, b \in {sWalk, sPeck, sRest}}
    \cup {<<2, <<"A">>, sWalk>>, <<0>>, << >>}

\* The observations a project may hold, by position: their identifier, media
\* file and declared metadata (frame rate in hundredths, duration in ticks).
ProjObsIds == << <<"o","1">>, <<"o","2">> >>
ProjFile1 == << <<sVideo1>> >>
ProjFile2 == << << >>, <<sVideo2, sVideo1>> >>
ProjFiles == <<ProjFile1, ProjFile2>>
ProjInfo1 == << [fps |-> Some(2500), duration |-> Some(180000)] >>
ProjInfo2 == << [fps |-> None, duration |-> None], [fps |-> Some(3000), duration |-> None] >>
ProjInfos == <<ProjInfo1, ProjInfo2>>

\* The ways to spread at most n events over k observations.
RECURSIVE EventLists(_, _)
EventLists(k, n) ==
    IF k = 0 THEN {<< >>}
    ELSE UNION {{<<evs>> \o rest : rest \in EventLists(k - 1, n - Len(evs))} :
                    evs \in SeqsUpTo(ProjEventSet, n)}

Projects ==
    {[ethogram |-> ProjEthogram,
      observations |->
        [i \in 1..Len(evl) |->
            [obs_id |-> ProjObsIds[i],
             file |-> IF meta THEN ProjFiles[i] ELSE << >>,
             media_info |-> IF meta THEN ProjInfos[i] ELSE << >>,
             events |-> evl[i]]]] :
        evl \in UNION {EventLists(k, MaxEvents) : k \in 0..Len(ProjObsIds)},
        meta \in BOOLEAN}

InitProject ==
    /\ pc = "project"
    /\ project \in Projects
    /\ warnings = << >>
    /\ errors = << >>
    /\ exit_code = 0
    /\ df = None
    /\ idx = 0
    /\ open_states = << >>
    /\ bouts = << >>
    /\ obs_i = 0
    /\ events = << >>
    /\ media_filename = None
    /\ fps = None
    /\ duration = None
    /\ ValidateIdle
    /\ ClipIdle
    /\ result = None

NextProject ==
    ProjStart \/ ProjObservation \/ ProjEvent \/ ProjObservationEnd \/ ProjReturn

SpecProject == InitProject /\ [][NextProject]_vars

(***************************************************************************)
(* validate.py                                                             *)
(*                                                                         *)
(* Times are in ticks and frame rates in hundredths of a frame per second. *)
(***************************************************************************)
TicksPerMs == 3
TicksPerSecond == 1000 * TicksPerMs

\* _DURATION_TOLERANCE = 1.0 and _FPS_TOLERANCE = 0.1
DURATION_TOLERANCE == 1 * TicksPerSecond
FPS_TOLERANCE == 10

\* violations[:5]
ListedViolations == 5

Abs(x) == IF x < 0 THEN -x ELSE x

VideoInfo(path, filename, length, rate) ==
    [path |-> path, filename |-> filename, duration |-> length, fps |-> rate]

\* _hard with force ignored: always fatal.
HardAlwaysAborts(message, f, outcome) ==
    [outcome EXCEPT !.errors = Append(@, message), !.exit_code = 1]
\* _hard with force taken for granted: never fatal.
HardNeverAborts(message, f, outcome) ==
    [outcome EXCEPT !.warnings = warn(@, [message EXCEPT !.forced = TRUE])]
\* _hard: a warning under force, else abort. outcome is [warnings, errors,
\* exit_code] before the call, the value is the same after it.
Hard(message, f, outcome) ==
    IF f
    THEN [outcome EXCEPT !.warnings = warn(@, [message EXCEPT !.forced = TRUE])]
    ELSE [outcome EXCEPT !.errors = Append(@, message), !.exit_code = 1]

Outcome == [warnings |-> warnings, errors |-> errors, exit_code |-> exit_code]

\* The comparison of line 93 with >= in place of >.
BoutViolatesInclusive(b, v) == b.stop >= v.duration + DURATION_TOLERANCE
\* Line 93: the Bout ends after the video, beyond the tolerance.
BoutViolates(b, v) == b.stop > v.duration + DURATION_TOLERANCE

\* Lines 92-106: the message of the bounds check.
BoundsMessage(violations, v) ==
    LET shown == SubSeq(violations, 1, Min(ListedViolations, Len(violations)))
    IN  [kind |-> "out_of_bounds", forced |-> FALSE,
         n |-> Len(violations),
         duration |-> v.duration,
         details |-> [k \in 1..Len(shown) |->
                        [behaviour |-> shown[k].behaviour, subject |-> shown[k].subject,
                         stop |-> shown[k].stop]],
         more |-> IF Len(violations) > ListedViolations
                  THEN Some(Len(violations) - ListedViolations) ELSE None]

\* After a check: the next check, or the end of the process after an abort.
AfterCheck(code, next) == IF code = 0 THEN next ELSE "exited"

\* Lines 47-61: _check_media_filename
CheckMediaFilename ==
    /\ pc = "check_media_filename"
    /\ evaluated' = Append(evaluated, "media_filename")
    /\ LET out ==
            IF annotations.media_filename = None
            THEN [Outcome EXCEPT !.warnings = warn(@, [kind |-> "no_media_filename"])]
            ELSE IF annotations.media_filename[1] # video.filename
                 THEN Hard([kind |-> "filename_mismatch", forced |-> FALSE,
                            boris |-> annotations.media_filename[1],
                            video |-> video.filename], force, Outcome)
                 ELSE Outcome
       IN  /\ warnings' = out.warnings
           /\ errors' = out.errors
           /\ exit_code' = out.exit_code
           /\ pc' = AfterCheck(out.exit_code, "check_fps")
    /\ UNCHANGED <<parseVars, annotations, video, force, clipVars, result>>

\* Lines 64-73: _check_fps
CheckFps ==
    /\ pc = "check_fps"
    /\ evaluated' = Append(evaluated, "fps")
    /\ warnings' =
         IF annotations.fps = None \/ video.fps = 0 THEN warnings
         ELSE IF Abs(annotations.fps[1] - video.fps) > FPS_TOLERANCE
              THEN warn(warnings, [kind |-> "fps_differs", boris |-> annotations.fps[1],
                                   video |-> video.fps])
              ELSE warnings
    /\ pc' = "check_duration"
    /\ UNCHANGED <<errors, exit_code, parseVars, annotations, video, force, clipVars, result>>

\* Lines 76-84: _check_duration
CheckDuration ==
    /\ pc = "check_duration"
    /\ evaluated' = Append(evaluated, "duration")
    /\ warnings' =
         IF annotations.duration = None THEN warnings
         ELSE IF Abs(annotations.duration[1] - video.duration) > DURATION_TOLERANCE
              THEN warn(warnings, [kind |-> "duration_differs",
                                   boris |-> annotations.duration[1],
                                   video |-> video.duration,
                                   diff |-> Abs(annotations.duration[1] - video.duration)])
              ELSE warnings
    /\ pc' = "check_bout_bounds"
    /\ UNCHANGED <<errors, exit_code, parseVars, annotations, video, force, clipVars, result>>

\* Lines 87-106: _check_bout_bounds, after which validate returns.
CheckBoutBounds ==
    /\ pc = "check_bout_bounds"
    /\ evaluated' = Append(evaluated, "bout_bounds")
    /\ LET violations == FilterIdx(annotations.bouts,
                            LAMBDA k : BoutViolates(annotations.bouts[k], video), 1)
           out == IF violations # << >>
                  THEN Hard(BoundsMessage(violations, video), force, Outcome)
                  ELSE Outcome
       IN  /\ warnings' = out.warnings
           /\ errors' = out.errors
           /\ exit_code' = out.exit_code
           /\ pc' = AfterCheck(out.exit_code, "done")
    /\ UNCHANGED <<parseVars, annotations, video, force, clipVars, result>>

(***************************************************************************)
(* validate run on every small annotation set.                             *)
(***************************************************************************)
MaxValBouts == 6

sVideoName == <<"v",".","m","p","4">>
sOtherName == <<"o",".","m","p","4">>
ValVideoDuration == 60 * TicksPerSecond

\* A Bout that ends exactly at the tolerance and two that end beyond it.
ValBouts ==
    {Bout(<<"A">>, sWalk, 0, ValVideoDuration + DURATION_TOLERANCE, FALSE),
     Bout(<<"A">>, sWalk, 0, ValVideoDuration + DURATION_TOLERANCE + 1, FALSE),
     Bout(<<"B">>, sPeck, ValVideoDuration + 5 * TicksPerSecond,
          ValVideoDuration + 5 * TicksPerSecond, TRUE)}

\* Declared frame rate, declared duration and the video's frame rate: absent,
\* equal, at the tolerance, beyond it on either side, video rate unknown,
\* declared rate zero.
ValDrifts ==
    {<<None, None, 2500>>,
     <<Some(0), Some(ValVideoDuration), 2500>>,
     <<Some(2500), Some(ValVideoDuration), 2500>>,
     <<Some(2510), Some(ValVideoDuration + DURATION_TOLERANCE), 2500>>,
     <<Some(2511), Some(ValVideoDuration + DURATION_TOLERANCE + 1), 2500>>,
     <<Some(2489), Some(ValVideoDuration - DURATION_TOLERANCE - 1), 2500>>,
     <<Some(3000), Some(ValVideoDuration), 0>>}

InitValidate ==
    /\ pc = "check_media_filename"
    /\ \E name \in {None, Some(sVideoName), Some(sOtherName)},
          drift \in ValDrifts,
          bs \in SeqsUpTo(ValBouts, MaxValBouts) :
            /\ annotations = ParsedAnnotations(bs, None, name, drift[1], drift[2], "unknown")
            /\ video = VideoInfo(<<"/","d","/">> \o sVideoName, sVideoName,
                                 ValVideoDuration, drift[3])
    /\ force \in BOOLEAN
    /\ evaluated = << >>
    /\ warnings = << >>
    /\ errors = << >>
    /\ exit_code = 0
    /\ ParseIdle
    /\ ClipIdle
    /\ result = None

NextValidate == CheckMediaFilename \/ CheckFps \/ CheckDuration \/ CheckBoutBounds

SpecValidate == InitValidate /\ [][NextValidate]_vars

(***************************************************************************)
(* models.py: Bout.duration and Bout.with_padding                          *)
(***************************************************************************)
\* Lines 26-28
BoutDuration(b) == b.stop - b.start

\* with_padding without the clamps to 0 and to the video duration.
WithPaddingUnclamped(b, pre, post, video_duration) ==
    Bout(b.subject, b.behaviour, b.start - pre, b.stop + post, b.is_point)

\* Lines 30-47
WithPadding(b, pre, post, video_duration) ==
    LET new_start == Max(0, b.start - pre)
        new_stop == IF video_duration # None
                    THEN Min(video_duration[1], b.stop + post)
                    ELSE b.stop + post
    IN  Bout(b.subject, b.behaviour, new_start, new_stop, b.is_point)

\* with_padding that writes the new interval into self and returns self.
WithPaddingInPlace(h, self, pre, post, video_duration) ==
    [h EXCEPT !.objs[self] = WithPadding(h.objs[self], pre, post, video_duration),
              !.returned = Some(self)]

\* Lines 41-47 on the heap: the Bout returned is a new instance.
WithPaddingOnHeap(h, self, pre, post, video_duration) ==
    [h EXCEPT !.objs = Append(@, WithPadding(h.objs[self], pre, post, video_duration)),
              !.returned = Some(Len(h.objs) + 1)]

(***************************************************************************)
(* with_padding applied to every small input.                              *)
(***************************************************************************)
sA == <<"A">>
sNoFocalSubject == <<"N","o"," ","f","o","c","a","l"," ","s","u","b","j","e","c","t">>

PadBouts ==
    { Bout(sA, sWalk, 1 * TicksPerSecond, 3 * TicksPerSecond, FALSE),
      Bout(sNoFocalSubject, sPeck, 2 * TicksPerSecond, 2 * TicksPerSecond, TRUE),
      Bout(sA, sPeck, 0, 1, FALSE),
      Bout(<< >>, sWalk, 5 * TicksPerSecond, 6 * TicksPerSecond, FALSE) }
PadAmounts == {-2 * TicksPerSecond, 0, 1, 2 * TicksPerSecond, 10 * TicksPerSecond}
PadDurations == {None, Some(0), Some(4 * TicksPerSecond)}

InitPadding ==
    /\ pc = "with_padding"
    /\ \E b \in PadBouts, pre \in PadAmounts, post \in PadAmounts, d \in PadDurations :
          args = [bout |-> b, pre |-> pre, post |-> post, video_duration |-> d]
    /\ warnings = << >>
    /\ errors = << >>
    /\ exit_code = 0
    /\ ParseIdle
    /\ ValidateIdle
    /\ kept = << >> /\ clip_i = 0 /\ calls = << >> /\ created = << >>
    /\ heap = HeapOf(<<args.bout>>, FALSE)
    /\ result = None

CallWithPadding ==
    /\ pc = "with_padding"
    /\ result' = Some(WithPadding(args.bout, args.pre, args.post, args.video_duration))
    /\ heap' = WithPaddingOnHeap(heap, 1, args.pre, args.post, args.video_duration)
    /\ pc' = "done"
    /\ UNCHANGED <<warnings, errors, exit_code, parseVars, validateVars,
                   args, kept, clip_i, calls, created>>

NextPadding == CallWithPadding

SpecPadding == InitPadding /\ [][NextPadding]_vars

(***************************************************************************)
(* clip.py: build_output_path                                              *)
(***************************************************************************)
DigitChars == <<"0","1","2","3","4","5","6","7","8","9">>

\* Word characters beyond ASCII that the inputs use (Python 3 patterns on str
\* are Unicode-aware).
UnicodeWordChars == {"é"}

\* \w
IsWordChar(c) ==
    \/ c \in {LowerLetters[k] : k \in 1..26}
    \/ c \in {UpperLetters[k] : k \in 1..26}
    \/ c \in {DigitChars[k] : k \in 1..10}
    \/ c = "_"
    \/ c \in UnicodeWordChars

\* re.sub(r"_+", "_", name)
RECURSIVE CollapseUnderscores(_)
CollapseUnderscores(s) ==
    IF Len(s) < 2 THEN s
    ELSE IF s[1] = "_" /\ s[2] = "_" THEN CollapseUnderscores(Tail(s))
    ELSE <<s[1]>> \o CollapseUnderscores(Tail(s))

\* name.strip("_")
RECURSIVE StripUnderscores(_)
StripUnderscores(s) ==
    IF s # << >> /\ s[1] = "_" THEN StripUnderscores(Tail(s))
    ELSE IF s # << >> /\ s[Len(s)] = "_" THEN StripUnderscores(SubSeq(s, 1, Len(s) - 1))
    ELSE s

\* Lines 12-17: _sanitise_name
SanitiseName(name) ==
    LET stripped == StrStrip(name)
        replaced == [i \in 1..Len(stripped) |->
                        IF IsWordChar(stripped[i]) \/ stripped[i] = "-"
                        THEN stripped[i] ELSE "_"]
    IN  StripUnderscores(CollapseUnderscores(replaced))

sNoFocalLabel == <<"n","o","-","f","o","c","a","l","-","s","u","b","j","e","c","t">>
\* Line 20
NO_FOCAL_SUBJECT_LABELS == {<< >>, StrLower(sNoFocalSubject), sNoFocalLabel}

\* Path(p).stem: the name up to its last dot, unless that dot leads or ends
\* the name.
PathStem(p) ==
    LET name == PathName(p)
        dots == {i \in 1..Len(name) : name[i] = "."}
        last == IF dots = {} THEN 0 ELSE CHOOSE i \in dots : \A j \in dots : j <= i
    IN  IF 1 < last /\ last < Len(name) THEN SubSeq(name, 1, last - 1) ELSE name

RECURSIVE Digits(_)
Digits(n) ==
    IF n < 10 THEN <<DigitChars[n + 1]>>
    ELSE Digits(n \div 10) \o <<DigitChars[(n % 10) + 1]>>

\* format(t, ".3f"): the sign, the seconds and the nearest millisecond.  A
\* whole number of ticks is never halfway between two milliseconds.
Fmt3(t) ==
    LET ms == (2 * Abs(t) + TicksPerMs) \div (2 * TicksPerMs)
        frac == ms % 1000
    IN  (IF t < 0 THEN <<"-">> ELSE << >>)
        \o Digits(ms \div 1000) \o <<".">>
        \o <<DigitChars[(frac \div 100) + 1],
             DigitChars[((frac \div 10) % 10) + 1],
             DigitChars[(frac % 10) + 1]>>

\* "_".join(parts)
RECURSIVE Join(_)
Join(parts) ==
    IF parts = << >> THEN << >>
    ELSE IF Len(parts) = 1 THEN parts[1]
    ELSE parts[1] \o <<"_">> \o Join(Tail(parts))

\* build_output_path naming the clip after the interval of the bout it is
\* given, not after the original interval.
BuildOutputPathOfGivenBout(bout, v, output_dir, original_start, original_stop) ==
    LET video_stem == PathStem(v.filename)
        behaviour == SanitiseName(bout.behaviour)
        subject == IF StrLower(StrStrip(bout.subject)) \in NO_FOCAL_SUBJECT_LABELS
                   THEN sNoFocalLabel
                   ELSE SanitiseName(bout.subject)
        interval == Fmt3(bout.start) \o <<"-">> \o Fmt3(bout.stop)
        parts == <<video_stem, behaviour, subject, interval>>
    IN  output_dir \o <<"/">>
        \o Join(FilterIdx(parts, LAMBDA k : parts[k] # << >>, 1))
        \o <<".","m","p","4">>

\* Lines 23-62
BuildOutputPath(bout, v, output_dir, original_start, original_stop) ==
    LET video_stem == PathStem(v.filename)
        behaviour == SanitiseName(bout.behaviour)
        subject == IF StrLower(StrStrip(bout.subject)) \in NO_FOCAL_SUBJECT_LABELS
                   THEN sNoFocalLabel
                   ELSE SanitiseName(bout.subject)
        interval == Fmt3(original_start) \o <<"-">> \o Fmt3(original_stop)
        parts == <<video_stem, behaviour, subject, interval>>
    IN  output_dir \o <<"/">>
        \o Join(FilterIdx(parts, LAMBDA k : parts[k] # << >>, 1))
        \o <<".","m","p","4">>

(***************************************************************************)
(* clip.py: _apply_max_clips                                               *)
(***************************************************************************)
\* The group key with letter case folded.
GroupKeyFolded(bout) == <<StrLower(bout.behaviour), StrLower(bout.subject)>>

\* Line 139
GroupKey(bout) == <<bout.behaviour, bout.subject>>

\* counts.get(key, 0)
CountOf(counts, key) == IF key \in DOMAIN counts THEN counts[key] ELSE 0

\* Lines 138-143: the loop from bout i on.
RECURSIVE MaxClipsLoop(_, _, _, _, _)
MaxClipsLoop(bs, max_clips, i, counts, keep) ==
    IF i > Len(bs) THEN keep
    ELSE LET key == GroupKey(bs[i])
             n == CountOf(counts, key)
         IN  IF n < max_clips
             THEN MaxClipsLoop(bs, max_clips, i + 1,
                    [k \in DOMAIN counts \cup {key} |->
                        IF k = key THEN n + 1 ELSE counts[k]],
                    Append(keep, bs[i]))
             ELSE MaxClipsLoop(bs, max_clips, i + 1, counts, keep)

\* Lines 125-144
ApplyMaxClips(bs, max_clips) ==
    IF max_clips = None THEN bs
    ELSE MaxClipsLoop(bs, max_clips[1], 1, << >>, << >>)

\* Lines 134-144 on the heap: with None the list given is returned, else a
\* new list of the Bout instances kept.
ApplyMaxClipsOnHeap(h, list, max_clips) ==
    IF max_clips = None THEN [h EXCEPT !.returned = Some(list)]
    ELSE LET refs == h.lists[list]
             tagged == [k \in 1..Len(refs) |->
                           [ref |-> refs[k], behaviour |-> h.objs[refs[k]].behaviour,
                            subject |-> h.objs[refs[k]].subject]]
             keep == MaxClipsLoop(tagged, max_clips[1], 1, << >>, << >>)
         IN  [h EXCEPT !.lists = Append(@, [k \in 1..Len(keep) |-> keep[k].ref]),
                       !.returned = Some(Len(h.lists) + 1)]

(***************************************************************************)
(* clip.py: extract_all_clips and extract_clip                             *)
(*                                                                         *)
(* args holds the arguments of the call and run_returns, the exit codes    *)
(* that the runs of ffmpeg can end with: none when ffmpeg is not on the    *)
(* PATH (subprocess.run raises FileNotFoundError).                         *)
(***************************************************************************)
\* Lines 205-212 with the truncation left out.
TruncateNever(padded, max_duration) == padded

\* Lines 205-212
Truncate(padded, max_duration) ==
    IF max_duration # None /\ BoutDuration(padded) > max_duration[1]
    THEN Bout(padded.subject, padded.behaviour, padded.start,
              padded.start + max_duration[1], padded.is_point)
    ELSE padded

\* Lines 205-212 on the heap: a truncated Bout is a new instance.
TruncateOnHeap(h, padded, max_duration) ==
    IF max_duration # None /\ BoutDuration(h.objs[padded]) > max_duration[1]
    THEN [h EXCEPT !.objs = Append(@, Truncate(h.objs[padded], max_duration)),
                   !.returned = Some(Len(h.objs) + 1)]
    ELSE [h EXCEPT !.returned = Some(padded)]

\* Lines 200-212 with no video duration handed to with_padding.
PaddedUnknownDuration(bout) ==
    LET pre == IF bout.is_point THEN args.point_padding_pre ELSE args.padding_pre
        post == IF bout.is_point THEN args.point_padding_post ELSE args.padding_post
    IN  Truncate(WithPadding(bout, pre, post, None), args.max_duration)

\* Lines 200-212: the bout that one iteration hands on.
Padded(bout) ==
    LET pre == IF bout.is_point THEN args.point_padding_pre ELSE args.padding_pre
        post == IF bout.is_point THEN args.point_padding_post ELSE args.padding_post
    IN  Truncate(WithPadding(bout, pre, post, Some(video.duration)), args.max_duration)

\* Line 214 with a bout of no duration let through.
SurvivesWithoutDuration(padded) == BoutDuration(padded) >= 0

\* Line 214: the bouts that are not skipped.
Survives(padded) == ~(BoutDuration(padded) <= 0)

\* Lines 194-197
ClipStart ==
    /\ pc = "extract_all_clips"
    /\ kept' = ApplyMaxClips(args.bouts, args.max_clips)
    /\ heap' = LET h == ApplyMaxClipsOnHeap(heap, heap.bouts[1], args.max_clips)
               IN  [h EXCEPT !.bouts = h.returned]
    /\ created' = << >>
    /\ clip_i' = 0
    /\ pc' = "clip_loop"
    /\ UNCHANGED <<warnings, errors, exit_code, parseVars, validateVars, args, calls, result>>

\* Lines 199-233: one iteration of the loop, extract_clip (lines 85-122)
\* included.
ClipBout ==
    /\ pc = "clip_loop"
    /\ clip_i < Len(kept)
    /\ LET bout == kept[clip_i + 1]
           padded == Padded(bout)
           out_path == BuildOutputPath(padded, video, args.output_dir, bout.start, bout.stop)
           Call(returncode) ==
               [i |-> clip_i, ss |-> padded.start, t |-> padded.stop - padded.start,
                input |-> video.path, copy |-> args.fast, output |-> out_path,
                returncode |-> returncode]
           pre == IF bout.is_point THEN args.point_padding_pre ELSE args.padding_pre
           post == IF bout.is_point THEN args.point_padding_post ELSE args.padding_post
           self == heap.lists[heap.bouts[1]][clip_i + 1]
           h1 == WithPaddingOnHeap(heap, self, pre, post, Some(video.duration))
           h2 == TruncateOnHeap(h1, h1.returned[1], args.max_duration)
       IN  \/ /\ ~Survives(padded)
              /\ heap' = h2
              /\ warnings' = warn(warnings, [kind |-> "skipped", subject |-> bout.subject,
                                             behaviour |-> bout.behaviour,
                                             start |-> Fmt3(bout.start)])
              /\ clip_i' = clip_i + 1
              /\ UNCHANGED <<pc, errors, exit_code, calls, created>>
           \/ /\ Survives(padded)
              /\ args.run_returns = {}
              /\ calls' = Append(calls, Call(None))
              /\ heap' = [h2 EXCEPT !.passed = Append(@, h2.returned[1])]
              /\ errors' = Append(errors, [kind |-> "ffmpeg_not_found"])
              /\ exit_code' = 1
              /\ pc' = "exited"
              /\ UNCHANGED <<warnings, clip_i, created>>
           \/ /\ Survives(padded)
              /\ \E returncode \in args.run_returns :
                    /\ calls' = Append(calls, Call(Some(returncode)))
                    /\ warnings' = IF returncode # 0
                                   THEN warn(warnings, [kind |-> "ffmpeg_failed",
                                                        output |-> PathName(out_path)])
                                   ELSE warnings
              /\ created' = Append(created, out_path)
              /\ heap' = [h2 EXCEPT !.passed = Append(@, h2.returned[1])]
              /\ clip_i' = clip_i + 1
              /\ UNCHANGED <<pc, errors, exit_code>>
    /\ UNCHANGED <<parseVars, validateVars, args, kept, result>>

\* Line 235
ClipReturn ==
    /\ pc = "clip_loop"
    /\ clip_i = Len(kept)
    /\ result' = Some(created)
    /\ pc' = "done"
    /\ UNCHANGED <<warnings, errors, exit_code, parseVars, validateVars, clipVars>>

(***************************************************************************)
(* extract_all_clips run on every small bout list under a choice of        *)
(* parameter sets, and _apply_max_clips on every small bout list.          *)
(***************************************************************************)
MaxClipBouts == 3
MaxGroupBouts == 4
MaxMaxClips == 2

sLowerA == <<"a">>
sInd1A == <<"i","n","d"," ","1"," ","(","A",")">>
sTete == <<"t","é","t","e">>
sOut == <<"o","u","t">>

\* Two bouts one tick apart, a bout of another letter case that ends after
\* the shorter video, a point event, a bout after the end of both videos and
\* a state event that stops before it starts.
ClipBoutSet ==
    { Bout(sA, sWalk, 1 * TicksPerSecond, 3 * TicksPerSecond, FALSE),
      Bout(sA, sWalk, 1 * TicksPerSecond + 1, 3 * TicksPerSecond, FALSE),
      Bout(sLowerA, sWalk, 2 * TicksPerSecond, 5 * TicksPerSecond, FALSE),
      Bout(sNoFocalSubject, sPeck, 2 * TicksPerSecond, 2 * TicksPerSecond, TRUE),
      Bout(sInd1A, sTete, 7 * TicksPerSecond, 8 * TicksPerSecond, FALSE),
      Bout(sA, sPeck, 3 * TicksPerSecond, 2 * TicksPerSecond, FALSE) }

ClipVideos ==
    { VideoInfo(<<"/","d","/">> \o sVideoName, sVideoName, 6 * TicksPerSecond, 2500),
      VideoInfo(sVideo2, sVideo2, 4 * TicksPerSecond, 2500) }

ClipParam(pre, post, point_pre, point_post, max_duration, max_clips, fast, run_returns) ==
    [padding_pre |-> pre, padding_post |-> post,
     point_padding_pre |-> point_pre, point_padding_post |-> point_post,
     max_duration |-> max_duration, max_clips |-> max_clips,
     fast |-> fast, run_returns |-> run_returns]

\* The defaults of lines 151-157 first.
ClipParams ==
    { ClipParam(0, 0, 5 * TicksPerSecond, 5 * TicksPerSecond, None, None, FALSE, {0, 1}),
      ClipParam(1 * TicksPerSecond, 1 * TicksPerSecond, 0, 0, None, None, TRUE, {0}),
      ClipParam(1, 1, 1 * TicksPerSecond, 1 * TicksPerSecond,
                Some(2 * TicksPerSecond), None, FALSE, {0}),
      ClipParam(-2 * TicksPerSecond, 1 * TicksPerSecond, -1, 1,
                None, Some(1), FALSE, {0}),
      ClipParam(100 * TicksPerSecond, 100 * TicksPerSecond, 0, 100 * TicksPerSecond,
                Some(3 * TicksPerSecond), Some(2), FALSE, {0, 1}),
      ClipParam(0, 0, 5 * TicksPerSecond, 5 * TicksPerSecond, Some(0), None, FALSE, {0}),
      ClipParam(0, 0, 5 * TicksPerSecond, 5 * TicksPerSecond, None, None, FALSE, {}) }

InitClip ==
    /\ pc = "extract_all_clips"
    /\ \E bs \in SeqsUpTo(ClipBoutSet, MaxClipBouts), p \in ClipParams :
          args = [bouts |-> bs, output_dir |-> sOut,
                  padding_pre |-> p.padding_pre, padding_post |-> p.padding_post,
                  point_padding_pre |-> p.point_padding_pre,
                  point_padding_post |-> p.point_padding_post,
                  max_duration |-> p.max_duration, max_clips |-> p.max_clips,
                  fast |-> p.fast, run_returns |-> p.run_returns]
    /\ video \in ClipVideos
    /\ annotations = None /\ force = FALSE /\ evaluated = << >>
    /\ warnings = << >>
    /\ errors = << >>
    /\ exit_code = 0
    /\ ParseIdle
    /\ kept = << >> /\ clip_i = 0 /\ calls = << >> /\ created = << >>
    /\ heap = HeapOf(args.bouts, TRUE)
    /\ result = None

NextClip == ClipStart \/ ClipBout \/ ClipReturn

SpecClip == InitClip /\ [][NextClip]_vars

InitMaxClips ==
    /\ pc = "apply_max_clips"
    /\ \E bs \in SeqsUpTo(ClipBoutSet, MaxGroupBouts),
          n \in {None} \cup {Some(k) : k \in 0..MaxMaxClips} :
            args = [bouts |-> bs, max_clips |-> n]
    /\ warnings = << >>
    /\ errors = << >>
    /\ exit_code = 0
    /\ ParseIdle
    /\ ValidateIdle
    /\ kept = << >> /\ clip_i = 0 /\ calls = << >> /\ created = << >>
    /\ heap = HeapOf(args.bouts, TRUE)
    /\ result = None

CallApplyMaxClips ==
    /\ pc = "apply_max_clips"
    /\ result' = Some(ApplyMaxClips(args.bouts, args.max_clips))
    /\ heap' = ApplyMaxClipsOnHeap(heap, 1, args.max_clips)
    /\ pc' = "done"
    /\ UNCHANGED <<warnings, errors, exit_code, parseVars, validateVars,
                   args, kept, clip_i, calls, created>>

NextMaxClips == CallApplyMaxClips

SpecMaxClips == InitMaxClips /\ [][NextMaxClips]_vars

(***************************************************************************)
(* parse.py: _parse_aggregated_csv                                         *)
(*                                                                         *)
(* A row holds one cell for each column the parser may read; the cells of  *)
(* a column that the frame does not have are never read.                   *)
(***************************************************************************)
sStartS == <<"S","t","a","r","t"," ","(","s",")">>
sStartS2 == <<"S","t","a","r","t","(","s",")">>
sStopS == <<"S","t","o","p"," ","(","s",")">>
sStopS2 == <<"S","t","o","p","(","s",")">>
\* Lines 188-191, as _require_col asks for them.
AggregatedRequired ==
    << <<sSubject>>, <<sBehavior, sBehaviour>>, <<sStartS, sStartS2>>, <<sStopS, sStopS2>> >>

AggMissingRequired(columns) ==
    {k \in 1..Len(AggregatedRequired) : FindCol(columns, AggregatedRequired[k]) = None}

\* Lines 198-201: the name of the first media file, if the column is there.
AggMedia(frame) ==
    LET filenames == Unique(DropNa([k \in 1..Len(frame.rows) |-> frame.rows[k].media]))
    IN  IF FindCol(frame.columns, <<sMediaPath, sMediaName, sMediaFile>>) # None
           /\ Len(filenames) >= 1
        THEN Some(PathName(SanitiseStr(filenames[1])))
        ELSE None

\* Lines 186-213
AggPrepare ==
    /\ pc = "aggregated"
    /\ IF AggMissingRequired(df.columns) # {}
       THEN /\ errors' = Append(errors, [kind |-> "missing_column"])
            /\ exit_code' = 1
            /\ pc' = "exited"
            /\ UNCHANGED <<idx, media_filename, fps, duration>>
       ELSE /\ media_filename' = AggMedia(df)
            /\ fps' = OnlyValue(df, <<sFPS, sFps>>,
                                [k \in 1..Len(df.rows) |-> df.rows[k].fps])
            /\ duration' = OnlyValue(df, <<sTotalLength, sDuration>>,
                                     [k \in 1..Len(df.rows) |-> df.rows[k].total])
            /\ idx' = 1
            /\ pc' = "aggregated_rows"
            /\ UNCHANGED <<errors, exit_code>>
    /\ UNCHANGED <<warnings, df, open_states, bouts, project, obs_i, events, result>>
    /\ UNCHANGED <<validateVars, clipVars>>

\* is_point as the reverse of line 226.
IsPointNever(start, stop) == FALSE

\* Line 226
IsPoint(start, stop) == start = stop

\* Lines 215-237: one iteration of the row loop.
AggRow ==
    /\ pc = "aggregated_rows"
    /\ idx <= Len(df.rows)
    /\ LET row == df.rows[idx]
           subject == SanitiseStr(row.subject)
           behaviour == SanitiseStr(row.behaviour)
       IN  IF row.start = NaN \/ row.stop = NaN
           THEN /\ warnings' = warn(warnings, [kind |-> "missing_start_stop",
                                               subject |-> subject, behaviour |-> behaviour])
                /\ UNCHANGED bouts
           ELSE /\ bouts' = Append(bouts, Bout(subject, behaviour, row.start[1], row.stop[1],
                                               IsPoint(row.start[1], row.stop[1])))
                /\ UNCHANGED warnings
    /\ idx' = idx + 1
    /\ UNCHANGED <<pc, errors, exit_code, df, open_states, project, obs_i, events,
                   media_filename, fps, duration, result>>
    /\ UNCHANGED <<validateVars, clipVars>>

\* Lines 239-245
AggFinish ==
    /\ pc = "aggregated_rows"
    /\ idx > Len(df.rows)
    /\ result' = Some(ParsedAnnotations(bouts, None, media_filename, fps, duration,
                                         "aggregated_csv"))
    /\ pc' = "done"
    /\ UNCHANGED <<warnings, errors, exit_code, df, idx, open_states, bouts, project,
                   obs_i, events, media_filename, fps, duration>>
    /\ UNCHANGED <<validateVars, clipVars>>

(***************************************************************************)
(* The aggregated parser run on every small document.                      *)
(***************************************************************************)
AggRowOf(subject, start, stop, media, rate, total) ==
    [subject |-> Some(subject), behaviour |-> Some(<<"y">>), start |-> start, stop |-> stop,
     media |-> media, fps |-> rate, total |-> total]

\* A point event, a state event, a row that stops before it starts, rows
\* without a start, a stop or both, a subject to strip, and rows that differ
\* in the declared media file, frame rate and length.
AggRowSet ==
    { AggRowOf(<<"x">>, Some(7), Some(7), NaN, NaN, NaN),
      AggRowOf(<<"x">>, Some(1), Some(3), NaN, NaN, NaN),
      AggRowOf(<<"x">>, Some(3), Some(1), NaN, NaN, NaN),
      AggRowOf(<<"x">>, NaN, Some(2), NaN, NaN, NaN),
      AggRowOf(<<"x">>, Some(2), NaN, NaN, NaN, NaN),
      AggRowOf(<<" ","B">>, NaN, NaN, NaN, NaN, NaN),
      AggRowOf(<<" ","B">>, Some(0), Some(0), Some(sVideo1), Some(2500), Some(60)),
      AggRowOf(<<"x">>, Some(0), Some(2), Some(sVideo2), Some(3000), Some(60)) }

AggColumns == {sSubject, sBehaviour, sStartS, sStopS}
AggMetaColumns == {sMediaFile, sFps, sTotalLength}

AggregatedFrames ==
    {[columns |-> AggColumns \cup m, rows |-> r] :
        m \in {{}, AggMetaColumns}, r \in SeqsUpTo(AggRowSet, MaxRows)}
        \cup {[columns |-> AggColumns \ {c}, rows |-> << >>] : c \in AggColumns}

InitAggregated ==
    /\ pc = "aggregated"
    /\ df \in AggregatedFrames
    /\ warnings = << >>
    /\ errors = << >>
    /\ exit_code = 0
    /\ idx = 0
    /\ open_states = << >>
    /\ bouts = << >>
    /\ project = None
    /\ obs_i = 0
    /\ events = << >>
    /\ media_filename = None
    /\ fps = None
    /\ duration = None
    /\ ValidateIdle
    /\ ClipIdle
    /\ result = None

NextAggregated == AggPrepare \/ AggRow \/ AggFinish

SpecAggregated == InitAggregated /\ [][NextAggregated]_vars

(***************************************************************************)
(* parse.py: _detect_csv_format                                            *)
(***************************************************************************)
\* Line 31
DetectCols(columns) == {StrLower(StrStrip(c)) : c \in columns}

\* _detect_csv_format asking for the paired-event columns first.
DetectCsvFormatPairedFirst(columns) ==
    LET cols == DetectCols(columns)
    IN  IF StrLower(sTime) \in cols /\ StrLower(sStatus) \in cols THEN Some("tabular")
        ELSE IF StrLower(sTime) \in cols /\ StrLower(sBehType) \in cols
        THEN Some("tabular_legacy")
        ELSE IF StrLower(sStartS) \in cols /\ StrLower(sStopS) \in cols THEN Some("aggregated")
        ELSE None

\* Lines 29-43: the format, or None where the code aborts.
DetectCsvFormat(columns) ==
    LET cols == DetectCols(columns)
    IN  IF StrLower(sStartS) \in cols /\ StrLower(sStopS) \in cols THEN Some("aggregated")
        ELSE IF StrLower(sTime) \in cols /\ StrLower(sStatus) \in cols THEN Some("tabular")
        ELSE IF StrLower(sTime) \in cols /\ StrLower(sBehType) \in cols
        THEN Some("tabular_legacy")
        ELSE None

(***************************************************************************)
(* _detect_csv_format applied to every set of column names below.          *)
(***************************************************************************)
DetectColumnNames ==
    { sTime, <<" ","T","I","M","E"," ">>, sStatus, sBehType, sBehTypeUK,
      sStartS, sStopS, <<"S","T","O","P"," ","(","S",")">>, sStartS2, sSubject }

InitDetect ==
    /\ pc = "detect_csv_format"
    /\ \E c \in SUBSET DetectColumnNames : df = [columns |-> c, rows |-> << >>]
    /\ warnings = << >>
    /\ errors = << >>
    /\ exit_code = 0
    /\ idx = 0
    /\ open_states = << >>
    /\ bouts = << >>
    /\ project = None
    /\ obs_i = 0
    /\ events = << >>
    /\ media_filename = None
    /\ fps = None
    /\ duration = None
    /\ ValidateIdle
    /\ ClipIdle
    /\ result = None

CallDetectCsvFormat ==
    /\ pc = "detect_csv_format"
    /\ LET fmt == DetectCsvFormat(df.columns)
       IN  IF fmt = None
           THEN /\ errors' = Append(errors, [kind |-> "format_not_detected"])
                /\ exit_code' = 1
                /\ pc' = "exited"
                /\ UNCHANGED result
           ELSE /\ result' = fmt
                /\ pc' = "done"
                /\ UNCHANGED <<errors, exit_code>>
    /\ UNCHANGED <<warnings, parseVars, validateVars, clipVars>>

NextDetect == CallDetectCsvFormat

SpecDetect == InitDetect /\ [][NextDetect]_vars

(***************************************************************************)
(* cli.py: _resolve_padding                                                *)
(***************************************************************************)
\* _resolve_padding taking a padding of 0 for one that was not given.
ResolvePaddingFalsy(padding, padding_pre, padding_post) ==
    LET base == IF padding # None /\ padding # Some(0) THEN padding[1] ELSE 0
    IN  <<IF padding_pre # None /\ padding_pre # Some(0) THEN padding_pre[1] ELSE base,
          IF padding_post # None /\ padding_post # Some(0) THEN padding_post[1] ELSE base>>

\* Lines 43-57
ResolvePadding(padding, padding_pre, padding_post) ==
    LET base == IF padding # None THEN padding[1] ELSE 0
    IN  <<IF padding_pre # None THEN padding_pre[1] ELSE base,
          IF padding_post # None THEN padding_post[1] ELSE base>>

(***************************************************************************)
(* _resolve_padding applied to every choice of the three options.          *)
(***************************************************************************)
ResolveAmounts ==
    {None, Some(0), Some(1 * TicksPerSecond), Some(2 * TicksPerSecond),
     Some(-1 * TicksPerSecond)}

InitResolve ==
    /\ pc = "resolve_padding"
    /\ \E p \in ResolveAmounts, pre \in ResolveAmounts, post \in ResolveAmounts :
          args = [padding |-> p, padding_pre |-> pre, padding_post |-> post]
    /\ warnings = << >>
    /\ errors = << >>
    /\ exit_code = 0
    /\ ParseIdle
    /\ ValidateIdle
    /\ kept = << >> /\ clip_i = 0 /\ calls = << >> /\ created = << >>
    /\ heap = NoHeap
    /\ result = None

CallResolvePadding ==
    /\ pc = "resolve_padding"
    /\ result' = Some(ResolvePadding(args.padding, args.padding_pre, args.padding_post))
    /\ pc' = "done"
    /\ UNCHANGED <<warnings, errors, exit_code, parseVars, validateVars, clipVars>>

NextResolve == CallResolvePadding

SpecResolve == InitResolve /\ [][NextResolve]_vars

(***************************************************************************)
(* cli_utils.py: abort, on the record of what has been written so far.     *)
(***************************************************************************)
\* abort leaving with exit status 0.
AbortExitsZero(outcome, message) ==
    [outcome EXCEPT !.errors = Append(@, message), !.exit_code = 0]

\* Lines 16-19: the message is written and the process exits with status 1.
Abort(outcome, message) ==
    [outcome EXCEPT !.errors = Append(@, message), !.exit_code = 1]

(***************************************************************************)
(* parse.py: parse_boris_file                                              *)
(*                                                                         *)
(* args.path is the path given and args.file what the file system holds    *)
(* there: None for no file, else Some of a record with the frame that      *)
(* reading it as CSV gives and the document that reading it as JSON gives, *)
(* each None where the reader raises.                                      *)
(***************************************************************************)
sDotBoris == <<".","b","o","r","i","s">>

\* Path(p).suffix: the name from its last dot on, unless that dot leads or
\* ends the name.
PathSuffix(p) ==
    LET name == PathName(p)
        dots == {i \in 1..Len(name) : name[i] = "."}
        last == IF dots = {} THEN 0 ELSE CHOOSE i \in dots : \A j \in dots : j <= i
    IN  IF 1 < last /\ last < Len(name) THEN SubSeq(name, last, Len(name)) ELSE << >>

\* Lines 25-26
IsBorisProject(path) == StrLower(PathSuffix(path)) = sDotBoris

\* Lines 411-427, and lines 254-255 of _parse_boris_project: json.load
\* raises on a document that is not JSON, which nothing catches.
ParseFile ==
    /\ pc = "parse_boris_file"
    /\ LET fail(kind) == Abort(Outcome, [kind |-> kind])
           left(out) == /\ errors' = out.errors
                        /\ exit_code' = out.exit_code
                        /\ pc' = "exited"
                        /\ UNCHANGED <<df, project>>
       IN  IF args.file = None THEN left(fail("file_not_found"))
           ELSE IF IsBorisProject(args.path)
           THEN IF args.file[1].json = None
                THEN /\ errors' = Append(errors, [kind |-> "JSONDecodeError"])
                     /\ exit_code' = 1
                     /\ pc' = "raised"
                     /\ UNCHANGED <<df, project>>
                ELSE /\ project' = args.file[1].json[1]
                     /\ pc' = "project"
                     /\ UNCHANGED <<errors, exit_code, df>>
           ELSE IF args.file[1].csv = None THEN left(fail("csv_unreadable"))
           ELSE LET frame == args.file[1].csv[1]
                    fmt == DetectCsvFormat(frame.columns)
                IN  IF fmt = None THEN left(fail("format_not_detected"))
                    ELSE /\ df' = frame
                         /\ pc' = IF fmt \in {Some("tabular"), Some("tabular_legacy")}
                                  THEN "tabular" ELSE "aggregated"
                         /\ UNCHANGED <<errors, exit_code, project>>
    /\ UNCHANGED <<warnings, idx, open_states, bouts, obs_i, events,
                   media_filename, fps, duration, result>>
    /\ UNCHANGED <<validateVars, clipVars>>

(***************************************************************************)
(* parse_boris_file run on small files of every kind.                      *)
(***************************************************************************)
MaxFileRows == 1

sCsvPath == <<"d","/","a",".","c","s","v">>
sBorisPath == <<"d",".","v","/","b",".","B","o","r","i","s">>

\* Frames whose columns hold both combinations, only one column of a
\* combination, or names that only match once stripped; they have no rows.
FileOddColumns ==
    { {sTime, sStatus, sStartS, sStopS, sSubject, sBehavior},
      {sTime, sStatus, sStartS, sStopS},
      {sTime, sSubject, sBehavior},
      {sStartS, sSubject, sBehaviour},
      {<<" ","T","I","M","E"," ">>, sSubject, sBehavior, sStatus},
      {sTime, sSubject, sBehavior, sBehTypeUK},
      {sTime, sSubject, sBehavior, sBehType},
      {sSubject, sBehaviour, sStartS2, sStopS2},
      {} }

FileFrames ==
    {[columns |-> TabColumns, rows |-> r] : r \in SeqsUpTo(TabRowSet, MaxFileRows)}
    \cup {[columns |-> TabColumns \ {c}, rows |-> << >>] : c \in TabColumns}
    \cup {[columns |-> AggColumns \cup AggMetaColumns, rows |-> r] :
            r \in SeqsUpTo(AggRowSet, MaxFileRows)}
    \cup {[columns |-> AggColumns \ {c}, rows |-> << >>] : c \in AggColumns}
    \cup {[columns |-> c, rows |-> << >>] : c \in FileOddColumns}

\* A project of the given event lists, one for each observation.
ProjectOf(evl) ==
    [ethogram |-> ProjEthogram,
     observations |->
        [i \in 1..Len(evl) |->
            [obs_id |-> ProjObsIds[i], file |-> ProjFiles[i],
             media_info |-> ProjInfos[i], events |-> evl[i]]]]

FileProjects ==
    { ProjectOf(<< >>),
      ProjectOf(<< << >> >>),
      ProjectOf(<< << <<0, <<"A">>, sWalk>>, <<1, <<"A">>, sWalk>> >> >>),
      ProjectOf(<< << <<0, <<"A">>, sWalk>> >>, << <<1, <<"A">>, sPeck>> >> >>),
      ProjectOf(<< << <<0, <<"A">>, sWalk>>, << >> >> >>) }

\* The path and what is found there.
Files ==
    {[path |-> sCsvPath, file |-> Some([csv |-> Some(f), json |-> None])] : f \in FileFrames}
    \cup {[path |-> sBorisPath, file |-> Some([csv |-> None, json |-> Some(p)])] :
            p \in FileProjects}
    \cup {[path |-> p, file |-> f] :
            p \in {sCsvPath, sBorisPath}, f \in {None, Some([csv |-> None, json |-> None])}}

InitFile ==
    /\ pc = "parse_boris_file"
    /\ args \in Files
    /\ warnings = << >>
    /\ errors = << >>
    /\ exit_code = 0
    /\ ParseIdle
    /\ ValidateIdle
    /\ kept = << >> /\ clip_i = 0 /\ calls = << >> /\ created = << >>
    /\ heap = NoHeap
    /\ result = None

NextFile ==
    \/ ParseFile
    \/ TabPrepare \/ TabRow \/ TabFinish
    \/ AggPrepare \/ AggRow \/ AggFinish
    \/ ProjStart \/ ProjObservation \/ ProjEvent \/ ProjObservationEnd \/ ProjReturn

SpecFile == InitFile /\ [][NextFile]_vars

(***************************************************************************)
(* cli.py: main                                                            *)
(*                                                                         *)
(* args holds the command line and, as for parse_boris_file, the path of   *)
(* the annotation file and what is found there.  parse_boris_file returns  *)
(* one ParsedAnnotations, a dataclass without __len__: the len() of line   *)
(* 233 raises TypeError, which nothing catches, so the matching, probing,  *)
(* validation and extraction of lines 236-289 are never entered.           *)
(***************************************************************************)
\* Line 13
DEFAULT_POINT_PADDING == 5 * TicksPerSecond

\* Lines 60-80
ResolvePointPadding(padding_pre, padding_post, point_padding, point_padding_pre, point_padding_post, any_padding_specified) ==
    IF point_padding # None \/ point_padding_pre # None \/ point_padding_post # None
    THEN LET base == IF point_padding # None THEN point_padding[1]
                     ELSE DEFAULT_POINT_PADDING
         IN  <<IF point_padding_pre # None THEN point_padding_pre[1] ELSE base,
               IF point_padding_post # None THEN point_padding_post[1] ELSE base>>
    ELSE IF any_padding_specified THEN <<padding_pre, padding_post>>
    ELSE <<DEFAULT_POINT_PADDING, DEFAULT_POINT_PADDING>>

\* Lines 222-232: the paddings are resolved and parse_boris_file is called.
MainStart ==
    /\ pc = "main"
    /\ LET any_padding_specified ==
               args.padding # None \/ args.padding_pre # None \/ args.padding_post # None
           state == ResolvePadding(args.padding, args.padding_pre, args.padding_post)
           point == ResolvePointPadding(state[1], state[2], args.point_padding,
                                        args.point_padding_pre, args.point_padding_post,
                                        any_padding_specified)
       IN  args' = [args EXCEPT !.resolved =
                        Some([pre |-> state[1], post |-> state[2],
                              pt_pre |-> point[1], pt_post |-> point[2]])]
    /\ pc' = "parse_boris_file"
    /\ UNCHANGED <<warnings, errors, exit_code, parseVars, validateVars,
                   kept, clip_i, calls, created, heap, result>>

\* Line 233: len(observations) on the ParsedAnnotations that was returned.
MainObservations ==
    /\ pc = "done"
    /\ "videos" \in DOMAIN args
    /\ errors' = Append(errors, [kind |-> "TypeError"])
    /\ exit_code' = 1
    /\ pc' = "raised"
    /\ UNCHANGED <<warnings, parseVars, validateVars, clipVars, result>>

(***************************************************************************)
(* main run on the small files under a choice of command lines.            *)
(***************************************************************************)
MainOptions ==
    { [padding |-> None, padding_pre |-> None, padding_post |-> None,
       point_padding |-> None, point_padding_pre |-> None, point_padding_post |-> None,
       fast |-> FALSE, force |-> FALSE],
      [padding |-> Some(2 * TicksPerSecond), padding_pre |-> Some(0), padding_post |-> None,
       point_padding |-> None, point_padding_pre |-> None, point_padding_post |-> None,
       fast |-> TRUE, force |-> FALSE],
      [padding |-> None, padding_pre |-> None, padding_post |-> Some(1 * TicksPerSecond),
       point_padding |-> None, point_padding_pre |-> Some(0), point_padding_post |-> None,
       fast |-> FALSE, force |-> TRUE] }

InitMain ==
    /\ pc = "main"
    /\ \E f \in Files, o \in MainOptions, vs \in {<< >>, <<sVideo1>>} :
          args = [path |-> f.path, file |-> f.file, videos |-> vs, output_dir |-> sOut,
                  padding |-> o.padding, padding_pre |-> o.padding_pre,
                  padding_post |-> o.padding_post, point_padding |-> o.point_padding,
                  point_padding_pre |-> o.point_padding_pre,
                  point_padding_post |-> o.point_padding_post,
                  fast |-> o.fast, force |-> o.force, resolved |-> None]
    /\ warnings = << >>
    /\ errors = << >>
    /\ exit_code = 0
    /\ ParseIdle
    /\ ValidateIdle
    /\ kept = << >> /\ clip_i = 0 /\ calls = << >> /\ created = << >>
    /\ heap = NoHeap
    /\ result = None

NextMain ==
    \/ MainStart
    \/ ParseFile
    \/ TabPrepare \/ TabRow \/ TabFinish
    \/ AggPrepare \/ AggRow \/ AggFinish
    \/ ProjStart \/ ProjObservation \/ ProjEvent \/ ProjObservationEnd \/ ProjReturn
    \/ MainObservations

SpecMain == InitMain /\ [][NextMain]_vars

(***************************************************************************)
(* Properties of the paired-event parser.                                  *)
(*                                                                         *)
(* They are stated over the rows the loop has consumed, without reading    *)
(* open_states: a key is open before row j exactly when the latest START   *)
(* or STOP row of the key before j is a START.                             *)
(***************************************************************************)
TabRunning == pc \in {"tabular_rows", "done"}
TabConsumed == idx - 1

TabIs(j, status) == RowStatus(df.rows[j]) = status
TabKeyAt(j) == RowKey(df.rows[j])
TabKeys == {TabKeyAt(j) : j \in 1..Len(df.rows)}

\* The latest START or STOP row of key before row j, 0 when there is none.
LastPairing(key, j) ==
    LET c == {i \in 1..(j - 1) :
                TabKeyAt(i) = key /\ (TabIs(i, sSTART) \/ TabIs(i, sSTOP))}
    IN  IF c = {} THEN 0 ELSE CHOOSE i \in c : \A m \in c : m <= i

OpenBefore(key, j) == LastPairing(key, j) # 0 /\ TabIs(LastPairing(key, j), sSTART)

StateBouts(bs) == FilterIdx(bs, LAMBDA k : ~bs[k].is_point, 1)
BoutsOfKey(bs, key) ==
    FilterIdx(bs, LAMBDA k : <<bs[k].subject, bs[k].behaviour>> = key, 1)
WarningsOfKind(kind) == FilterIdx(warnings, LAMBDA k : warnings[k].kind = kind, 1)
WarningAt(kind, j) ==
    [kind |-> kind, subject |-> TabKeyAt(j)[1], behaviour |-> TabKeyAt(j)[2],
     t |-> df.rows[j].time]

\* The consumed rows of a status whose key is open (or not) when they are read.
ConsumedRows(status, open) ==
    FilterIdx([j \in 1..TabConsumed |-> j],
              LAMBDA j : TabIs(j, status) /\ (OpenBefore(TabKeyAt(j), j) = open), 1)

\* C1: a key whose rows are exactly one START at t1 and one STOP at t2 > t1
\* has exactly one Bout in the result, (t1, t2) with is_point false, whatever
\* rows of other keys the document holds and wherever they stand.
C1_PairYieldsOneBout ==
    pc = "done" =>
        \A key \in TabKeys :
            LET own == {j \in 1..Len(df.rows) : TabKeyAt(j) = key}
            IN  \A a, b \in own :
                    (/\ own = {a, b}
                     /\ TabIs(a, sSTART) /\ TabIs(b, sSTOP)
                     /\ df.rows[a].time < df.rows[b].time)
                    => BoutsOfKey(result[1].bouts, key) =
                         <<Bout(key[1], key[2], df.rows[a].time, df.rows[b].time, FALSE)>>

\* A finished parse of three rows: a START/STOP pair of one key with a row of
\* another key between them.
C1_Witness ==
    /\ pc = "done"
    /\ Len(df.rows) = 3
    /\ TabKeyAt(1) = TabKeyAt(3) /\ TabKeyAt(2) # TabKeyAt(1)
    /\ TabIs(1, sSTART) /\ TabIs(3, sSTOP) /\ TabIs(2, sSTART)
    /\ df.rows[1].time < df.rows[2].time /\ df.rows[2].time < df.rows[3].time
    /\ Len(BoutsOfKey(result[1].bouts, TabKeyAt(1))) = 1

\* C2: a STOP whose key is not open gives one warning and no Bout; a key still
\* open after the last row gives one warning and no Bout; the parse returns.
C2_UnmatchedAndUnclosed ==
    TabRunning =>
        /\ exit_code = 0
        /\ LET unmatched == ConsumedRows(sSTOP, FALSE)
           IN  WarningsOfKind("unmatched_stop") =
                 [k \in 1..Len(unmatched) |-> WarningAt("unmatched_stop", unmatched[k])]
        /\ Len(StateBouts(bouts)) = Len(ConsumedRows(sSTOP, TRUE))
        /\ pc = "done" =>
              /\ result # None
              /\ result[1].bouts = bouts
              /\ Len(WarningsOfKind("never_closed")) =
                    Cardinality({key \in TabKeys : OpenBefore(key, Len(df.rows) + 1)})
              /\ \A key \in TabKeys :
                    OpenBefore(key, Len(df.rows) + 1) =>
                        \E k \in 1..Len(warnings) :
                            /\ warnings[k].kind = "never_closed"
                            /\ <<warnings[k].subject, warnings[k].behaviour>> = key
                            /\ warnings[k].t = df.rows[LastPairing(key, Len(df.rows) + 1)].time

\* A finished parse that met a STOP of a key that was not open and ended with
\* a key still open: two warnings, no Bout.
C2_Witness ==
    /\ pc = "done"
    /\ Len(WarningsOfKind("unmatched_stop")) = 1
    /\ Len(WarningsOfKind("never_closed")) = 1
    /\ result[1].bouts = << >>
    /\ Len(df.rows) = 2

\* C3: a START on an open key gives one warning, never an abort, and replaces
\* the pending start: a STOP pairs with the latest START of its key, and the
\* interval that began at the replaced START is never emitted.
C3_RestartReplacesStart ==
    TabRunning =>
        /\ exit_code = 0
        /\ LET again == ConsumedRows(sSTART, TRUE)
           IN  WarningsOfKind("start_before_close") =
                 [k \in 1..Len(again) |-> WarningAt("start_before_close", again[k])]
        /\ LET closed == ConsumedRows(sSTOP, TRUE)
           IN  StateBouts(bouts) =
                 [k \in 1..Len(closed) |->
                    Bout(TabKeyAt(closed[k])[1], TabKeyAt(closed[k])[2],
                         df.rows[LastPairing(TabKeyAt(closed[k]), closed[k])].time,
                         df.rows[closed[k]].time, FALSE)]
        /\ \A key \in TabKeys :
              /\ IsOpen(open_states, key) = OpenBefore(key, idx)
              /\ IsOpen(open_states, key) =>
                    OpenStart(open_states, key) = df.rows[LastPairing(key, idx)].time
        /\ \A j \in 1..TabConsumed :
              (TabIs(j, sSTART) /\ OpenBefore(TabKeyAt(j), j)) =>
                  LET t1 == df.rows[LastPairing(TabKeyAt(j), j)].time
                      t2 == df.rows[j].time
                  IN  t1 < t2 =>
                        ~\E k \in 1..Len(bouts) :
                            /\ <<bouts[k].subject, bouts[k].behaviour>> = TabKeyAt(j)
                            /\ ~bouts[k].is_point
                            /\ bouts[k].start = t1
                            /\ bouts[k].stop >= t2

\* A finished parse of START at 0, START at 1, STOP at 2 for one key: one
\* warning and the single Bout (1, 2).
C3_Witness ==
    /\ pc = "done"
    /\ Len(df.rows) = 3
    /\ TabKeyAt(1) = TabKeyAt(2) /\ TabKeyAt(2) = TabKeyAt(3)
    /\ TabIs(1, sSTART) /\ TabIs(2, sSTART) /\ TabIs(3, sSTOP)
    /\ df.rows[1].time = 0 /\ df.rows[2].time = 1 /\ df.rows[3].time = 2
    /\ Len(WarningsOfKind("start_before_close")) = 1
    /\ Len(result[1].bouts) = 1
    /\ result[1].bouts[1].start = 1 /\ result[1].bouts[1].stop = 2

(***************************************************************************)
(* Properties of the project parser.                                       *)
(***************************************************************************)
\* The Bouts that the events of one observation can give: both ends are times
\* of events of the observation with the Bout's subject and behaviour.
FromObservation(b, obs) ==
    \A t \in {b.start, b.stop} :
        \E k \in 1..Len(obs.events) :
            /\ Len(obs.events[k]) >= 3
            /\ obs.events[k][1] = t
            /\ StrStrip(obs.events[k][2]) = b.subject
            /\ StrStrip(obs.events[k][3]) = b.behaviour

\* C4: a project with k >= 2 observations is returned as k results, the i-th
\* tagged with the identifier of the i-th observation and holding only Bouts
\* of that observation.
C4_OneResultPerObservation ==
    (pc = "done" /\ project # None /\ Len(project.observations) >= 2) =>
        /\ Len(result) = Len(project.observations)
        /\ \A i \in 1..Len(result) :
              /\ result[i].obs_id = Some(project.observations[i].obs_id)
              /\ \A k \in 1..Len(result[i].bouts) :
                    FromObservation(result[i].bouts[k], project.observations[i])

(***************************************************************************)
(* Properties of validate.                                                 *)
(*                                                                         *)
(* What each check should find is stated from the inputs alone.            *)
(***************************************************************************)
AllChecks == <<"media_filename", "fps", "duration", "bout_bounds">>
Evaluated(check) == \E k \in 1..Len(evaluated) : evaluated[k] = check
ValidateEnded == pc \in {"done", "exited"} /\ annotations # None

NoMediaFilename == annotations.media_filename = None
FilenameMismatch ==
    annotations.media_filename # None /\ annotations.media_filename[1] # video.filename
FpsDrift ==
    /\ annotations.fps # None /\ video.fps # 0
    /\ (annotations.fps[1] - video.fps > 10 \/ video.fps - annotations.fps[1] > 10)
DurationDrift ==
    /\ annotations.duration # None
    /\ (annotations.duration[1] - video.duration > 3000
        \/ video.duration - annotations.duration[1] > 3000)
OutOfBounds ==
    {k \in 1..Len(annotations.bouts) : annotations.bouts[k].stop > video.duration + 3000}

\* What warn() and abort() have written, of one kind.
Diagnostics(kind) ==
    LET all == warnings \o errors
    IN  FilterIdx(all, LAMBDA k : all[k].kind = kind, 1)
Reported(kind) == Diagnostics(kind) # << >>

\* Each check entered so far has reported exactly what it should find.
EvaluatedChecksReport ==
    /\ Evaluated("media_filename") =>
          /\ Reported("filename_mismatch") = FilenameMismatch
          /\ Reported("no_media_filename") = NoMediaFilename
    /\ Evaluated("fps") => (Reported("fps_differs") = FpsDrift)
    /\ Evaluated("duration") => (Reported("duration_differs") = DurationDrift)
    /\ Evaluated("bout_bounds") => (Reported("out_of_bounds") = (OutOfBounds # {}))

\* C5 as claimed: every call evaluates all four checks in order and reports
\* what each finds, also after a hard filename mismatch without force.
C5_AllChecksOnEveryCall ==
    ValidateEnded => (evaluated = AllChecks /\ EvaluatedChecksReport)

\* C5 as amended: the checks are entered in the order filename, frame rate,
\* duration, bounds, and each check entered reports what it finds; a call
\* that returns has entered all four; the only call that does not is the one
\* that finds a filename mismatch without force, which aborts with only the
\* filename check entered.
C5_ChecksInOrderUntilAbort ==
    annotations # None =>
        /\ Len(evaluated) <= 4
        /\ \A k \in 1..Len(evaluated) : evaluated[k] = AllChecks[k]
        /\ EvaluatedChecksReport
        /\ pc = "done" => evaluated = AllChecks
        /\ ValidateEnded =>
              IF FilenameMismatch /\ ~force
              THEN pc = "exited" /\ evaluated = <<"media_filename">>
              ELSE evaluated = AllChecks

\* An aborted call: the filename differs, force is off, and the frame rates
\* differ too, which no diagnostic reports.
C5_Witness ==
    /\ pc = "exited"
    /\ evaluated = <<"media_filename">>
    /\ FilenameMismatch /\ ~force
    /\ FpsDrift /\ ~Reported("fps_differs")
    /\ OutOfBounds # {}

\* C6: with force a call returns and warns once per hard condition found;
\* without force it aborts with status 1 exactly when one is found.
C6_ForceDowngradesHard ==
    ValidateEnded =>
        LET hard == (IF FilenameMismatch THEN 1 ELSE 0) + (IF OutOfBounds # {} THEN 1 ELSE 0)
            forced == FilterIdx(warnings,
                        LAMBDA k : warnings[k].kind \in {"filename_mismatch", "out_of_bounds"}, 1)
        IN  IF force
            THEN /\ pc = "done" /\ exit_code = 0 /\ errors = << >>
                 /\ Len(forced) = hard
                 /\ Len(Diagnostics("filename_mismatch")) = (IF FilenameMismatch THEN 1 ELSE 0)
                 /\ Len(Diagnostics("out_of_bounds")) = (IF OutOfBounds # {} THEN 1 ELSE 0)
                 /\ \A k \in 1..Len(forced) : forced[k].forced
            ELSE /\ (pc = "exited") = (hard > 0)
                 /\ (exit_code = 1) = (hard > 0)
                 /\ exit_code \in {0, 1}
                 /\ Len(errors) = exit_code
                 /\ forced = << >>

\* A call under force that found both hard conditions and returned.
C6_Witness ==
    /\ pc = "done" /\ annotations # None /\ force
    /\ FilenameMismatch /\ OutOfBounds # {}
    /\ Reported("filename_mismatch") /\ Reported("out_of_bounds")
    /\ exit_code = 0

\* The k-th Bout out of bounds, in input order.
NthOutOfBounds(k) ==
    CHOOSE j \in OutOfBounds : Cardinality({i \in OutOfBounds : i < j}) = k - 1

\* C7: the bounds check reports exactly when a Bout has stop > duration + 1.0;
\* with n such Bouts it names the first min(5, n) in input order and, when
\* n > 5, says that n - 5 more were left out.
C7_BoundsDiagnostic ==
    (annotations # None /\ Evaluated("bout_bounds")) =>
        LET n == Cardinality(OutOfBounds)
            d == Diagnostics("out_of_bounds")
        IN  /\ Len(d) = (IF n > 0 THEN 1 ELSE 0)
            /\ n > 0 =>
                 /\ d[1].n = n
                 /\ Len(d[1].details) = (IF n < 5 THEN n ELSE 5)
                 /\ \A k \in 1..Len(d[1].details) :
                       LET b == annotations.bouts[NthOutOfBounds(k)]
                       IN  d[1].details[k] =
                             [behaviour |-> b.behaviour, subject |-> b.subject, stop |-> b.stop]
                 /\ d[1].more = (IF n > 5 THEN Some(n - 5) ELSE None)

\* Six Bouts out of bounds: five are named and one more is counted.
C7_Witness ==
    /\ annotations # None /\ Evaluated("bout_bounds")
    /\ Cardinality(OutOfBounds) = 6
    /\ Len(Diagnostics("out_of_bounds")[1].details) = 5
    /\ Diagnostics("out_of_bounds")[1].more = Some(1)
    /\ annotations.bouts[1] # annotations.bouts[2]

\* A Bout that ends exactly at duration + 1.0 passes the bounds check.
C7_WitnessAtTolerance ==
    /\ pc = "done" /\ annotations # None /\ ~force
    /\ Len(annotations.bouts) = 1
    /\ annotations.bouts[1].stop = video.duration + 3000

(***************************************************************************)
(* Properties of with_padding, of the output path and of _apply_max_clips. *)
(***************************************************************************)
PaddingReturned == pc = "done" /\ "pre" \in DOMAIN args /\ result # None

\* C8: with_padding returns start = max(0, start - pre); stop = min(video
\* duration, stop + post) when a video duration is given and stop + post when
\* not; subject, behaviour and is_point as they were.  max and min are stated
\* by what they are: a bound that is one of the two values.
C8_WithPaddingResult ==
    PaddingReturned =>
        LET b == args.bout
            r == result[1]
            lo == b.start - args.pre
            hi == b.stop + args.post
        IN  /\ r.start >= 0 /\ r.start >= lo /\ r.start \in {0, lo}
            /\ IF args.video_duration # None
               THEN /\ r.stop <= args.video_duration[1] /\ r.stop <= hi
                    /\ r.stop \in {args.video_duration[1], hi}
               ELSE r.stop = hi
            /\ r.subject = b.subject
            /\ r.behaviour = b.behaviour
            /\ r.is_point = b.is_point
            /\ DOMAIN r = {"subject", "behaviour", "start", "stop", "is_point"}

\* A padded point event that both clamps cut.
C8_Witness ==
    /\ PaddingReturned
    /\ args.bout.is_point /\ result[1].is_point
    /\ args.bout.start - args.pre < 0 /\ result[1].start = 0
    /\ args.video_duration # None
    /\ args.bout.stop + args.post > args.video_duration[1]
    /\ result[1].stop = args.video_duration[1]

\* Padding without a video duration leaves the stop unclamped.
C8_WitnessNoDuration ==
    /\ PaddingReturned
    /\ args.video_duration = None
    /\ args.post > 0
    /\ result[1].stop = args.bout.stop + args.post

ClipRunning == pc \in {"clip_loop", "done", "exited"} /\ "padding_pre" \in DOMAIN args

\* The input bout that the k-th extract_clip call was made for.
OriginalOf(k) == kept[calls[k].i + 1]

\* The nearest whole millisecond to t ticks.
NearestMs(t) ==
    CHOOSE m \in ((t \div TicksPerMs) - 1)..((t \div TicksPerMs) + 1) :
        2 * (TicksPerMs * m - t) < TicksPerMs /\ 2 * (t - TicksPerMs * m) < TicksPerMs

DifferOnlyInInterval(a, b) ==
    /\ a.subject = b.subject /\ a.behaviour = b.behaviour /\ a.is_point = b.is_point
    /\ (a.start # b.start \/ a.stop # b.stop)

\* Every call so far wrote to the path that the video and the unpadded bout
\* alone determine.
PathFromOriginal ==
    \A k \in 1..Len(calls) :
        calls[k].output =
            BuildOutputPath(OriginalOf(k), video, args.output_dir,
                            OriginalOf(k).start, OriginalOf(k).stop)

MaxClipsReturned == pc = "done" /\ DOMAIN args = {"bouts", "max_clips"} /\ result # None

\* The number of bouts before position i of bs that are of the group of bs[i].
EarlierInGroup(bs, i) ==
    Cardinality({j \in 1..(i - 1) :
        bs[j].behaviour = bs[i].behaviour /\ bs[j].subject = bs[i].subject})

GroupSize(bs, key) ==
    Cardinality({j \in 1..Len(bs) : bs[j].behaviour = key[1] /\ bs[j].subject = key[2]})

\* C10: _apply_max_clips(bouts, N) returns, in input order, the bouts with
\* fewer than N bouts of their (behaviour, subject) group before them, the
\* keys compared verbatim, so each group keeps min(N, size) bouts; with None
\* it returns all bouts.
C10_FirstNPerGroup ==
    MaxClipsReturned =>
        LET bs == args.bouts
            r == result[1]
        IN  IF args.max_clips = None THEN r = bs
            ELSE LET N == args.max_clips[1]
                 IN  /\ r = FilterIdx(bs, LAMBDA i : EarlierInGroup(bs, i) < N, 1)
                     /\ \A i \in 1..Len(bs) :
                           LET key == <<bs[i].behaviour, bs[i].subject>>
                               size == GroupSize(bs, key)
                           IN  GroupSize(r, key) = (IF N < size THEN N ELSE size)

\* With N = 1, of three bouts of subject A and one of subject a, the first of
\* A and the one of a are returned.
C10_Witness ==
    /\ MaxClipsReturned
    /\ args.max_clips = Some(1)
    /\ Len(args.bouts) = 4
    /\ \E i \in 1..4 : args.bouts[i].subject = <<"a">>
    /\ Cardinality({i \in 1..4 : args.bouts[i].subject = <<"A">>
                                  /\ args.bouts[i].behaviour = args.bouts[1].behaviour}) = 3
    /\ Len(result[1]) = 2
    /\ result[1][1].subject # result[1][2].subject

\* With None every bout is returned.
C10_WitnessNone ==
    /\ MaxClipsReturned
    /\ args.max_clips = None
    /\ Len(args.bouts) = 4
    /\ result[1] = args.bouts

(***************************************************************************)
(* Properties of the bout loop of extract_all_clips.                       *)
(*                                                                         *)
(* The interval that a bout should be cut at is stated from the arguments. *)
(***************************************************************************)
PreOf(b) == IF b.is_point THEN args.point_padding_pre ELSE args.padding_pre
PostOf(b) == IF b.is_point THEN args.point_padding_post ELSE args.padding_post

\* The padded and clamped interval of b.
PaddedStart(b) == IF b.start - PreOf(b) > 0 THEN b.start - PreOf(b) ELSE 0
PaddedStop(b) ==
    IF b.stop + PostOf(b) < video.duration THEN b.stop + PostOf(b) ELSE video.duration

TooLong(b) ==
    args.max_duration # None /\ PaddedStop(b) - PaddedStart(b) > args.max_duration[1]

\* The duration of b after padding, clamping and truncation.
FinalDuration(b) ==
    IF TooLong(b) THEN args.max_duration[1] ELSE PaddedStop(b) - PaddedStart(b)

C11_WitnessAtLimit ==
    /\ ClipRunning
    /\ args.max_duration # None
    /\ \E k \in 1..Len(calls) :
          /\ PaddedStop(OriginalOf(k)) - PaddedStart(OriginalOf(k)) = args.max_duration[1]
          /\ calls[k].t = args.max_duration[1]
          /\ calls[k].ss # OriginalOf(k).start

\* The positions of kept that the loop has been through, from 0.
Processed == 0..(clip_i - 1)
Dropped == {i \in Processed : FinalDuration(kept[i + 1]) <= 0}

\* The extract_clip calls in which ffmpeg ran.
ReturnedCalls == FilterIdx(calls, LAMBDA k : calls[k].returncode # None, 1)

\* C12: a bout that ends with a duration <= 0 is skipped with one warning:
\* no extract_clip call is made for it and it adds no path to the list; the
\* loop goes on, so a run that returns has made one call and one path, in
\* order, for each of the other bouts.
C12_DroppedWithWarning ==
    ClipRunning =>
        /\ Len(WarningsOfKind("skipped")) = Cardinality(Dropped)
        /\ \A k \in 1..Len(calls) : calls[k].i \notin Dropped
        /\ \A i \in Processed \ Dropped : \E k \in 1..Len(calls) : calls[k].i = i
        /\ \A k1, k2 \in 1..Len(calls) : k1 < k2 => calls[k1].i < calls[k2].i
        /\ Len(created) = Len(ReturnedCalls)
        /\ \A k \in 1..Len(created) : created[k] = ReturnedCalls[k].output
        /\ pc = "done" => (clip_i = Len(kept) /\ result = Some(created))
        /\ pc = "exited" => args.run_returns = {}

\* A run that returned skipped its first bout and extracted a later one.
C12_Witness ==
    /\ ClipRunning /\ pc = "done"
    /\ 0 \in Dropped
    /\ Len(WarningsOfKind("skipped")) = 1
    /\ Len(calls) = 2
    /\ Len(result[1]) = 2

(***************************************************************************)
(* Properties of the parsers on malformed input.                           *)
(***************************************************************************)
\* C13, for the rows of a paired-event document whose time is missing or not
\* numeric: the step that drops them emits one warning for each of them,
\* the warning about several media files not counted.
C13_DroppedRowsWarn ==
    [][(pc = "tabular" /\ pc' = "tabular_rows")
          => Len(SelectSeq(warnings', LAMBDA w : w.kind # "multiple_media"))
                = Len(warnings) + (Len(df.rows) - Len(df'.rows))]_vars

(***************************************************************************)
(* Properties of the aggregated parser.                                    *)
(***************************************************************************)
AggReturned == pc = "done" /\ result # None /\ result[1].source_format = "aggregated_csv"

\* The positions of the rows with a numeric start and a numeric stop.
AggNumeric == {k \in 1..Len(df.rows) : df.rows[k].start # NaN /\ df.rows[k].stop # NaN}
NthNumeric(n) == CHOOSE k \in AggNumeric : Cardinality({j \in AggNumeric : j < k}) = n - 1

\* C15: the aggregated parser returns one Bout per row with a numeric start
\* and stop, in row order, with the row's subject, behaviour, start and stop,
\* and is_point exactly when start = stop; the other rows give no Bout.
C15_OneBoutPerNumericRow ==
    AggReturned =>
        LET bs == result[1].bouts
        IN  /\ Len(bs) = Cardinality(AggNumeric)
            /\ \A n \in 1..Len(bs) :
                  LET row == df.rows[NthNumeric(n)]
                  IN  /\ bs[n].subject = StrStrip(row.subject[1])
                      /\ bs[n].behaviour = StrStrip(row.behaviour[1])
                      /\ bs[n].start = row.start[1]
                      /\ bs[n].stop = row.stop[1]
                      /\ bs[n].is_point = (row.start[1] = row.stop[1])

\* Of three rows the one without a stop gave no Bout; the others gave a
\* point Bout and a state Bout.
C15_Witness ==
    /\ AggReturned
    /\ Len(df.rows) = 3 /\ Cardinality(AggNumeric) = 2
    /\ df.rows[2].stop = NaN
    /\ Len(result[1].bouts) = 2
    /\ result[1].bouts[1].is_point /\ result[1].bouts[1].start = 7
    /\ ~result[1].bouts[2].is_point
    /\ Len(warnings) = 1

\* C16: every Bout of a parser's result has stop >= start, and start = stop
\* when it is a point.
C16_StopNotBeforeStart ==
    (pc = "done" /\ result # None) =>
        \A n \in 1..Len(result[1].bouts) :
            LET b == result[1].bouts[n]
            IN  b.stop >= b.start /\ (b.is_point => b.start = b.stop)

(***************************************************************************)
(* Properties of _detect_csv_format.                                       *)
(***************************************************************************)
DetectEnded == pc \in {"done", "exited"} /\ df # None /\ project = None /\ idx = 0

\* A column of that name, letter case aside.
HasColumn(name) == \E c \in df.columns : StrLower(c) = name
\* A column of that name, letter case and surrounding blanks aside.
HasColumnTrimmed(name) == \E c \in df.columns : StrLower(StrStrip(c)) = name

DetectedAggregated == pc = "done" /\ result = Some("aggregated")
DetectedPaired == pc = "done" /\ result \in {Some("tabular"), Some("tabular_legacy")}
DetectAborted == pc = "exited" /\ exit_code = 1 /\ result = None

sLowStart == <<"s","t","a","r","t"," ","(","s",")">>
sLowStop == <<"s","t","o","p"," ","(","s",")">>
sLowTime == <<"t","i","m","e">>
sLowStatus == <<"s","t","a","t","u","s">>
sLowBehType == <<"b","e","h","a","v","i","o","r"," ","t","y","p","e">>

\* C17 as claimed: with names compared case-insensitively, the aggregated
\* format when 'start (s)' and 'stop (s)' are there, else the paired-event
\* format when 'time' is there with 'status' or 'behavior type', else abort.
C17_FormatByColumns ==
    DetectEnded =>
        IF HasColumn(sLowStart) /\ HasColumn(sLowStop) THEN DetectedAggregated
        ELSE IF HasColumn(sLowTime) /\ (HasColumn(sLowStatus) \/ HasColumn(sLowBehType))
        THEN DetectedPaired
        ELSE DetectAborted

\* C17 as amended: the same with names compared case-insensitively after
\* their surrounding blanks are removed.
C17_FormatByTrimmedColumns ==
    DetectEnded =>
        IF HasColumnTrimmed(sLowStart) /\ HasColumnTrimmed(sLowStop) THEN DetectedAggregated
        ELSE IF HasColumnTrimmed(sLowTime)
                /\ (HasColumnTrimmed(sLowStatus) \/ HasColumnTrimmed(sLowBehType))
        THEN DetectedPaired
        ELSE DetectAborted

\* Both combinations are there and the aggregated format is returned.
C17_Witness ==
    /\ DetectEnded /\ DetectedAggregated
    /\ HasColumn(sLowStart) /\ HasColumn(sLowStop)
    /\ HasColumn(sLowTime) /\ HasColumn(sLowStatus)

\* The paired-event format is returned for a time column spelled with blanks
\* around it.
C17_WitnessTrimmed ==
    /\ DetectEnded /\ DetectedPaired
    /\ ~HasColumn(sLowTime) /\ HasColumnTrimmed(sLowTime)

\* A set with the British 'Behaviour type' and 'Start(s)' has neither
\* combination.
C17_WitnessAbort ==
    /\ DetectEnded /\ DetectAborted
    /\ sTime \in df.columns /\ sBehTypeUK \in df.columns /\ sStartS2 \in df.columns
    /\ sStopS \in df.columns

(***************************************************************************)
(* Properties of the tokens of an output path.                             *)
(***************************************************************************)
\* A character of [A-Za-z0-9_-].
IsAsciiTokenChar(c) ==
    \/ c \in {LowerLetters[k] : k \in 1..26}
    \/ c \in {UpperLetters[k] : k \in 1..26}
    \/ c \in {"0","1","2","3","4","5","6","7","8","9"}
    \/ c \in {"_", "-"}

\* The label trimmed, every character outside [A-Za-z0-9_-] made "_", runs
\* of "_" made one and the "_" at both ends removed.
AsciiToken(label) ==
    LET trimmed == StrStrip(label)
    IN  StripUnderscores(CollapseUnderscores(
            [i \in 1..Len(trimmed) |->
                IF IsAsciiTokenChar(trimmed[i]) THEN trimmed[i] ELSE "_"]))

SubjectToken(label) ==
    IF StrLower(StrStrip(label)) \in
          {<< >>, <<"n","o"," ","f","o","c","a","l"," ","s","u","b","j","e","c","t">>,
           <<"n","o","-","f","o","c","a","l","-","s","u","b","j","e","c","t">>}
    THEN <<"n","o","-","f","o","c","a","l","-","s","u","b","j","e","c","t">>
    ELSE AsciiToken(label)

\* C18: in every output path the behaviour and the subject token are the
\* labels sanitised over [A-Za-z0-9_-], the subject token being
\* no-focal-subject for an empty or no-focal-subject label.
C18_TokensOverAscii ==
    ClipRunning =>
        \A k \in 1..Len(calls) :
            LET b == OriginalOf(k)
                parts == <<PathStem(video.filename), AsciiToken(b.behaviour),
                           SubjectToken(b.subject),
                           Fmt3(b.start) \o <<"-">> \o Fmt3(b.stop)>>
            IN  calls[k].output =
                    args.output_dir \o <<"/">>
                    \o Join(FilterIdx(parts, LAMBDA n : parts[n] # << >>, 1))
                    \o <<".","m","p","4">>

(***************************************************************************)
(* Properties of _resolve_padding.                                         *)
(***************************************************************************)
ResolveReturned ==
    pc = "done" /\ DOMAIN args = {"padding", "padding_pre", "padding_post"} /\ result # None

\* The side value if it was given, else the combined value if that was
\* given, else 0.
SideOrCombined(side, combined) ==
    CASE side # None -> side[1]
      [] side = None /\ combined # None -> combined[1]
      [] side = None /\ combined = None -> 0

\* C19: _resolve_padding returns (pre, post), each side being its own option
\* if given, else padding if given, else 0.0; so neither side depends on the
\* override of the other.
C19_SidesResolvedApart ==
    ResolveReturned =>
        /\ result[1][1] = SideOrCombined(args.padding_pre, args.padding)
        /\ result[1][2] = SideOrCombined(args.padding_post, args.padding)
        /\ Len(result[1]) = 2

\* An explicit padding_pre of 0 replaces the combined value on its side only.
C19_Witness ==
    /\ ResolveReturned
    /\ args.padding = Some(1 * TicksPerSecond)
    /\ args.padding_pre = Some(0)
    /\ args.padding_post = None
    /\ result[1] = <<0, 1 * TicksPerSecond>>

\* With nothing given both sides are 0.
C19_WitnessDefault ==
    /\ ResolveReturned
    /\ args.padding = None /\ args.padding_pre = None /\ args.padding_post = None
    /\ result[1] = <<0, 0>>

(***************************************************************************)
(* Properties of parse_boris_file.                                         *)
(*                                                                         *)
(* The structural failures are stated from the path and the file alone.    *)
(***************************************************************************)
FileCall == "file" \in DOMAIN args
FileEnded == FileCall /\ pc \in {"done", "exited", "raised"}

\* The frame has a column of one of these names: letter case aside for the
\* parsers, surrounding blanks aside too for the detection of the format.
FrameHas(frame, names) == \E c \in frame.columns : StrLower(c) \in names
FrameHasTrimmed(frame, names) == \E c \in frame.columns : StrLower(StrStrip(c)) \in names

sLowSubject == <<"s","u","b","j","e","c","t">>
sLowBehavior == <<"b","e","h","a","v","i","o","r">>
sLowBehaviour == <<"b","e","h","a","v","i","o","u","r">>
sLowBehTypeUK == <<"b","e","h","a","v","i","o","u","r"," ","t","y","p","e">>
sLowStart2 == <<"s","t","a","r","t","(","s",")">>
sLowStop2 == <<"s","t","o","p","(","s",")">>

LooksAggregated(frame) ==
    FrameHasTrimmed(frame, {sLowStart}) /\ FrameHasTrimmed(frame, {sLowStop})
LooksPaired(frame) ==
    /\ FrameHasTrimmed(frame, {sLowTime})
    /\ FrameHasTrimmed(frame, {sLowStatus, sLowBehType})

MandatoryMissing(frame) ==
    \/ ~FrameHas(frame, {sLowSubject})
    \/ ~FrameHas(frame, {sLowBehavior, sLowBehaviour})
    \/ IF LooksAggregated(frame)
       THEN ~FrameHas(frame, {sLowStart, sLowStart2}) \/ ~FrameHas(frame, {sLowStop, sLowStop2})
       ELSE ~FrameHas(frame, {sLowTime})
            \/ ~FrameHas(frame, {sLowStatus, sLowBehType, sLowBehTypeUK})

IsProjectPath == StrLower(PathSuffix(args.path)) = <<".","b","o","r","i","s">>

\* No file, a file that does not read as CSV, a frame of no known format or
\* without a mandatory column, a project without observations.
StructuralFailure ==
    \/ args.file = None
    \/ /\ args.file # None /\ ~IsProjectPath
       /\ \/ args.file[1].csv = None
          \/ /\ args.file[1].csv # None
             /\ LET frame == args.file[1].csv[1]
                IN  \/ ~LooksAggregated(frame) /\ ~LooksPaired(frame)
                    \/ MandatoryMissing(frame)
    \/ /\ args.file # None /\ IsProjectPath
       /\ args.file[1].json # None
       /\ Len(args.file[1].json[1].observations) = 0

\* C14: on a structural failure parse_boris_file aborts with exit status 1
\* and no ParsedAnnotations is returned, at the abort or before it; it does
\* not abort for anything else.
C14_StructuralFailureAborts ==
    FileCall =>
        /\ (FileEnded /\ StructuralFailure)
              => (pc = "exited" /\ exit_code = 1 /\ result = None /\ Len(errors) = 1)
        /\ pc = "exited" => StructuralFailure
        /\ pc # "done" => result = None

\* A paired-event frame whose time column only matches once stripped is
\* taken for that format and then aborts for the want of a Time column.
C14_Witness ==
    /\ FileEnded /\ pc = "exited" /\ exit_code = 1 /\ result = None
    /\ args.file # None /\ args.file[1].csv # None
    /\ LooksPaired(args.file[1].csv[1])
    /\ MandatoryMissing(args.file[1].csv[1])
    /\ errors = <<[kind |-> "missing_column"]>>

\* A project without observations aborts.
C14_WitnessProject ==
    /\ FileEnded /\ pc = "exited" /\ exit_code = 1 /\ result = None
    /\ IsProjectPath /\ args.file # None /\ args.file[1].json # None
    /\ errors = <<[kind |-> "no_observations"]>>

\* A file that is not there aborts.
C14_WitnessNoFile ==
    /\ FileEnded /\ pc = "exited" /\ exit_code = 1 /\ result = None
    /\ args.file = None
    /\ errors = <<[kind |-> "file_not_found"]>>

(***************************************************************************)
(* Properties of main.                                                     *)
(***************************************************************************)
MainCall == "videos" \in DOMAIN args

C20_WitnessNoFile ==
    /\ MainCall /\ pc = "exited" /\ exit_code = 1
    /\ args.file = None
    /\ errors = <<[kind |-> "file_not_found"]>>
    /\ calls = << >>

(***************************************************************************)
(* Properties of the output paths within one call of extract_all_clips.    *)
(***************************************************************************)
\* Two bouts that differ in subject, behaviour, start or stop.
DifferentBouts(a, b) ==
    a.subject # b.subject \/ a.behaviour # b.behaviour
    \/ a.start # b.start \/ a.stop # b.stop

\* C21: within one call of extract_all_clips, two extract_clip calls made for
\* bouts that differ in subject, behaviour, start or stop never get the same
\* output path.
C21_NoPathCollision ==
    ClipRunning =>
        \A j, k \in 1..Len(calls) :
            DifferentBouts(OriginalOf(j), OriginalOf(k))
                => calls[j].output # calls[k].output

C22_WitnessClampedStop ==
    /\ ClipRunning /\ pc = "done"
    /\ args.max_duration = None
    /\ \E k \in 1..Len(calls) :
          /\ ~OriginalOf(k).is_point
          /\ OriginalOf(k).stop + args.padding_post > video.duration
          /\ calls[k].ss + calls[k].t = video.duration

\* Under a negative padding a bout was extracted from after its own start.
C22_WitnessNegativePadding ==
    /\ ClipRunning /\ pc = "done"
    /\ args.padding_pre < 0
    /\ \E k \in 1..Len(calls) :
          /\ ~OriginalOf(k).is_point
          /\ calls[k].ss > OriginalOf(k).start

(***************************************************************************)
(* Properties of the declared metadata of the tabular parsers.             *)
(***************************************************************************)
\* The distinct present values of a column of the frame read by the step, in
\* file order; none when the frame has none of the candidate columns.
DeclaredValues(candidates, cells) ==
    IF \E c \in df.columns : \E k \in 1..Len(candidates) : StrLower(c) = StrLower(candidates[k])
    THEN LET present == SelectSeq(cells, LAMBDA v : v # NaN)
         IN  FilterIdx(present, LAMBDA k : \A j \in 1..(k - 1) : present[j] # present[k], 1)
    ELSE << >>

DeclaredMedia ==
    DeclaredValues(<<sMediaPath, sMediaName, sMediaFile>>,
                   [k \in 1..Len(df.rows) |-> df.rows[k].media])
DeclaredFps == DeclaredValues(<<sFPS, sFps>>, [k \in 1..Len(df.rows) |-> df.rows[k].fps])
DeclaredDuration ==
    DeclaredValues(<<sTotalLength, sDuration>>, [k \in 1..Len(df.rows) |-> df.rows[k].total])

\* The number of the three columns that hold several distinct values.
SeveralValued ==
    (IF Len(DeclaredMedia) > 1 THEN 1 ELSE 0) + (IF Len(DeclaredFps) > 1 THEN 1 ELSE 0)
    + (IF Len(DeclaredDuration) > 1 THEN 1 ELSE 0)

\* The step in which a tabular parser reads the declared metadata.
ReadsMetadata ==
    \/ pc = "tabular" /\ pc' = "tabular_rows"
    \/ pc = "aggregated" /\ pc' = "aggregated_rows"

\* C23: each declared field is the first distinct present value of its
\* column, and None when the column is absent or holds no value; one warning
\* is given for each column that holds several distinct values.
C23_FirstDeclaredValueWithWarning ==
    [][ReadsMetadata =>
          /\ media_filename' = IF DeclaredMedia = << >> THEN None
                               ELSE Some(PathName(StrStrip(DeclaredMedia[1][1])))
          /\ fps' = IF DeclaredFps = << >> THEN None ELSE DeclaredFps[1]
          /\ duration' = IF DeclaredDuration = << >> THEN None ELSE DeclaredDuration[1]
          /\ Len(warnings') = Len(warnings) + SeveralValued]_vars

(***************************************************************************)
(* Properties of the two drift checks of validate.                         *)
(***************************************************************************)
\* A rate that is neither absent nor zero, on both sides.
BothRatesKnown ==
    annotations.fps # None /\ annotations.fps[1] # 0 /\ video.fps # 0

RatesDiffer ==
    BothRatesKnown /\ Abs(annotations.fps[1] - video.fps) > FPS_TOLERANCE

DurationsDiffer ==
    /\ annotations.duration # None
    /\ Abs(annotations.duration[1] - video.duration) > DURATION_TOLERANCE

\* C24: the frame-rate check and the duration check never abort, and each
\* gives its one warning exactly when both values are known (the rates also
\* not zero) and differ by more than the tolerance.
C24_DriftChecksOnlyWarn ==
    annotations # None =>
        /\ Evaluated("fps") =>
              /\ Len(WarningsOfKind("fps_differs")) = (IF RatesDiffer THEN 1 ELSE 0)
              /\ pc = "check_duration" => errors = << >> /\ exit_code = 0
        /\ Evaluated("duration") =>
              /\ Len(WarningsOfKind("duration_differs")) = (IF DurationsDiffer THEN 1 ELSE 0)
              /\ pc = "check_bout_bounds" => errors = << >> /\ exit_code = 0
        /\ \A k \in 1..Len(errors) : errors[k].kind \notin {"fps_differs", "duration_differs"}

(***************************************************************************)
(* Properties of the list that extract_all_clips returns.                  *)
(***************************************************************************)
\* The extract_clip calls in which ffmpeg ended with exit code 0.
SucceededCalls == FilterIdx(calls, LAMBDA k : calls[k].returncode = Some(0), 1)

\* C25: the returned list holds, in order, the output paths of the calls in
\* which ffmpeg succeeded, and of no other call.
C25_ReturnsSucceededPaths ==
    (ClipRunning /\ pc = "done") =>
        /\ Len(result[1]) = Len(SucceededCalls)
        /\ \A k \in 1..Len(SucceededCalls) : result[1][k] = SucceededCalls[k].output

(***************************************************************************)
(* Properties of the order in which the paired-event parser reads rows.    *)
(***************************************************************************)
\* The rows at the indices todo by ascending time, rows of equal time in
\* their order in rows.
RECURSIVE InTimeThenFileOrder(_, _)
InTimeThenFileOrder(rows, todo) ==
    IF todo = {} THEN << >>
    ELSE LET i == CHOOSE i \in todo :
                    \A j \in todo : \/ rows[i].time < rows[j].time
                                    \/ rows[i].time = rows[j].time /\ i <= j
         IN  <<rows[i]>> \o InTimeThenFileOrder(rows, todo \ {i})

\* C26: the rows are read by ascending time, and rows of equal time in the
\* order they have in the file.
C26_TiesInFileOrder ==
    [][(pc = "tabular" /\ pc' = "tabular_rows") =>
          LET numeric == NumericRows(df.rows)
          IN  df'.rows = InTimeThenFileOrder(numeric, 1..Len(numeric))]_vars

(***************************************************************************)
(* Properties of the pairing of the project parser.                        *)
(*                                                                         *)
(* What each observation should give is stated from its events alone.      *)
(***************************************************************************)
ProjReturned == pc = "done" /\ project # None /\ result # None

\* The type the ethogram declares for a behaviour: that of its last entry of
\* a non-empty name; a behaviour without an entry has none.
DeclaredTypes(behaviour) ==
    LET c == {k \in 1..Len(project.ethogram) :
                 /\ StrStrip(project.ethogram[k].name) = behaviour
                 /\ behaviour # << >>}
    IN  IF c = {} THEN {}
        ELSE {StrStrip(project.ethogram[CHOOSE k \in c : \A m \in c : m <= k].type)}

IsPointBehaviour(behaviour) ==
    \E type \in DeclaredTypes(behaviour) : Contains(StrLower(type), <<"p","o","i","n","t">>)

\* The events of an observation that are read, by time and then position.
ReadEvents(obs) ==
    LET full == SelectSeq(obs.events, LAMBDA e : Len(e) >= 3)
    IN  StableByTime(full, 1..Len(full))

EventKey(e) == <<StrStrip(e[2]), StrStrip(e[3])>>

\* The times of the state events of a key in an observation, ascending.
KeyTimes(obs, key) ==
    LET evs == SelectSeq(ReadEvents(obs),
                         LAMBDA e : EventKey(e) = key /\ ~IsPointBehaviour(key[2]))
    IN  [k \in 1..Len(evs) |-> evs[k][1]]

\* How many times the events of an observation give the Bout b.
ShouldGive(obs, b) ==
    IF b.is_point
    THEN Cardinality({k \in 1..Len(obs.events) :
                         /\ Len(obs.events[k]) >= 3
                         /\ IsPointBehaviour(b.behaviour)
                         /\ EventKey(obs.events[k]) = <<b.subject, b.behaviour>>
                         /\ obs.events[k][1] = b.start /\ b.stop = b.start})
    ELSE LET ts == KeyTimes(obs, <<b.subject, b.behaviour>>)
         IN  Cardinality({k \in 1..Len(ts) :
                             /\ k % 2 = 1 /\ k + 1 <= Len(ts)
                             /\ ts[k] = b.start /\ ts[k + 1] = b.stop})

\* The keys of an observation with an odd number of state events, and the
\* time of the last event of such a key.
UnpairedKeys(obs) ==
    {key \in {EventKey(obs.events[k]) : k \in {j \in 1..Len(obs.events) : Len(obs.events[j]) >= 3}} :
        Len(KeyTimes(obs, key)) % 2 = 1}

RECURSIVE SumOver(_, _)
SumOver(f, n) == IF n = 0 THEN 0 ELSE f[n] + SumOver(f, n - 1)

CountIn(seq, x) == Cardinality({k \in 1..Len(seq) : seq[k] = x})

\* Every Bout over the times, subjects and behaviours of the project.
ProjCandidates ==
    LET evs == UNION {{obs.events[k] : k \in {j \in 1..Len(obs.events) : Len(obs.events[j]) >= 3}} :
                         obs \in {project.observations[i] : i \in 1..Len(project.observations)}}
    IN  {Bout(EventKey(e)[1], EventKey(e)[2], e1[1], e2[1], p) :
            e \in evs, e1 \in evs, e2 \in evs, p \in BOOLEAN}

C27_WitnessTwoObservations ==
    /\ ProjReturned
    /\ Len(project.observations) = 2
    /\ KeyTimes(project.observations[1], <<<<"A">>, sWalk>>) = <<0>>
    /\ KeyTimes(project.observations[2], <<<<"A">>, sWalk>>) = <<1>>
    /\ result[1].bouts = << >>
    /\ Len(WarningsOfKind("never_closed")) = 2

\* A point event between the two events of a state Bout, and an event of a
\* behaviour that the ethogram does not declare paired as a state event.
C27_WitnessPoint ==
    /\ ProjReturned
    /\ \E k \in 1..Len(result[1].bouts) :
          result[1].bouts[k] = Bout(<<"A">>, sPeck, 1, 1, TRUE)
    /\ \E k \in 1..Len(result[1].bouts) :
          result[1].bouts[k] = Bout(<<"A">>, sWalk, 0, 2, FALSE)

C27_WitnessUndeclared ==
    /\ ProjReturned
    /\ \E k \in 1..Len(result[1].bouts) :
          result[1].bouts[k] = Bout(<<"A">>, sRest, 0, 1, FALSE)

\* An observation of the project holds an event of fewer than 3 elements.
HasShortEvent ==
    \E i \in 1..Len(project.observations) :
        \E k \in 1..Len(project.observations[i].events) :
            Len(project.observations[i].events[k]) < 3

HasEmptyEvent ==
    \E i \in 1..Len(project.observations) :
        \E k \in 1..Len(project.observations[i].events) :
            project.observations[i].events[k] = << >>

\* C28: a project with an event of fewer than 3 elements, an empty event
\* included, is parsed to the end, and the result holds the Bouts that the
\* other events give.
C28_ShortEventsSkipped ==
    (project # None /\ HasShortEvent) =>
        /\ pc # "raised" /\ exit_code = 0
        /\ ProjReturned =>
              \A b \in ProjCandidates :
                  LET n == Len(project.observations)
                  IN  CountIn(result[1].bouts, b)
                          = SumOver([i \in 1..n |-> ShouldGive(project.observations[i], b)], n)

(***************************************************************************)
(* Properties of the order of the Bouts of the paired-event parser.        *)
(***************************************************************************)
\* C29: the state Bouts of one key are in the list in chronological order
\* and do not overlap: each starts no later than it stops, and no earlier
\* than the Bout of its key before it stops.
C29_KeyBoutsInOrder ==
    TabRunning =>
        \A j, k \in 1..Len(bouts) :
            (/\ j < k
             /\ ~bouts[j].is_point /\ ~bouts[k].is_point
             /\ bouts[j].subject = bouts[k].subject
             /\ bouts[j].behaviour = bouts[k].behaviour)
                => /\ bouts[j].start <= bouts[j].stop
                   /\ bouts[j].stop <= bouts[k].start
                   /\ bouts[k].start <= bouts[k].stop

\* A returned parse of two STARTs and two STOPs at four times: the Bouts
\* (0, 1) and (2, 3) of the key, in this order, and no warning.
C29_Witness ==
    /\ pc = "done" /\ result # None /\ df # None
    /\ result[1].source_format = "tabular_csv"
    /\ result[1].bouts = <<Bout(<<"A">>, TabRun, 0, 1, FALSE), Bout(<<"A">>, TabRun, 2, 3, FALSE)>>
    /\ warnings = << >>

\* Two Bouts of one key that touch: the second starts when the first stops.
C29_WitnessTouching ==
    /\ pc = "done" /\ result # None /\ df # None
    /\ result[1].source_format = "tabular_csv"
    /\ Len(result[1].bouts) = 2
    /\ result[1].bouts[1].subject = result[1].bouts[2].subject
    /\ result[1].bouts[1].stop = result[1].bouts[2].start
    /\ result[1].bouts[1].start < result[1].bouts[1].stop
    /\ result[1].bouts[2].start < result[1].bouts[2].stop

(***************************************************************************)
(* Properties of the objects that planning reads and makes.                *)
(***************************************************************************)
\* The Bouts that the caller handed to the running call.
InputBouts ==
    IF "bouts" \in DOMAIN args THEN args.bouts
    ELSE IF "bout" \in DOMAIN args THEN <<args.bout>>
    ELSE << >>

\* C30: the caller's list holds the same Bout instances in the same order
\* and every one of them has the subject, behaviour, start, stop and
\* is_point it was given; what with_padding returns and what extract_clip
\* is handed is an instance made by the call, and a truncated Bout is
\* another instance than the padded one.
C30_InputsNotMutated ==
    LET n == Len(InputBouts)
    IN  /\ Len(heap.objs) >= n
        /\ \A i \in 1..n : heap.objs[i] = InputBouts[i]
        /\ "bouts" \in DOMAIN args =>
              /\ heap.lists[1] = [k \in 1..n |-> k]
              /\ \A l \in 1..Len(heap.lists) : \A k \in 1..Len(heap.lists[l]) :
                    heap.lists[l][k] \in 1..n
        /\ "bout" \in DOMAIN args /\ pc = "done" =>
              /\ heap.returned # None /\ heap.returned[1] > n
              /\ heap.objs[heap.returned[1]] = result[1]
        /\ ClipRunning =>
              /\ Len(heap.passed) = Len(calls)
              /\ \A k \in 1..Len(calls) :
                    LET p == heap.passed[k]
                    IN  /\ p > n
                        /\ \A j \in 1..Len(calls) : j # k => heap.passed[j] # p
                        /\ heap.objs[p].start = calls[k].ss
                        /\ heap.objs[p].stop = calls[k].ss + calls[k].t
                        /\ TooLong(OriginalOf(k)) =>
                              /\ p - 1 > n
                              /\ heap.objs[p - 1].stop = PaddedStop(OriginalOf(k))
                              /\ heap.objs[p - 1].start = heap.objs[p].start

\* A returned run under max_clips = 1 and a max_duration: a bout was left
\* out by _apply_max_clips, a bout was truncated, and the caller's list and
\* Bouts are as they were given.
C30_Witness ==
    /\ ClipRunning /\ pc = "done"
    /\ args.max_clips # None /\ args.max_duration # None
    /\ Len(args.bouts) = 3
    /\ Len(kept) < Len(args.bouts)
    /\ Len(heap.lists) = 2
    /\ \E k \in 1..Len(calls) :
          /\ TooLong(OriginalOf(k))
          /\ heap.objs[heap.passed[k]] # heap.objs[heap.passed[k] - 1]
    /\ heap.lists[1] = <<1, 2, 3>>
    /\ \A i \in 1..3 : heap.objs[i] = args.bouts[i]

\* A run in which a bout was dropped after padding and another extracted.
C30_WitnessDropped ==
    /\ ClipRunning /\ pc = "done"
    /\ Dropped # {}
    /\ calls # << >>
    /\ Len(heap.objs) > Len(args.bouts) + Len(calls)
    /\ \A i \in 1..Len(args.bouts) : heap.objs[i] = args.bouts[i]

====
